---- MODULE Spec2Model ----
(***************************************************************************)
(* Model of get_data.py: the run of main() (update or offline mode, merge  *)
(* of the manual items, consumable closure pass, save) and its re-runs,    *)
(* the power extraction parse_power_from_page, the quantity parser         *)
(* _parse_quantity_and_name, the recipe extraction of                      *)
(* scrape_recipe_from_page and parse_consumables_from_page with            *)
(* _parse_hours.                                                           *)
(***************************************************************************)
EXTENDS Integers, Sequences, FiniteSets, TLC

VARIABLES
    update,               \* args.update
    file,                 \* items_data.json on disk: [kind, items]
    prior,                \* the file as it was when the run started
    item_links,           \* main: item_links
    i,                    \* main: index of the next link of the for loop
    responses,            \* what each requests.get of an item page gave, in call order
    all_item_data,        \* main: all_item_data
    existing_names,       \* main: existing_names
    minimal_consumables,  \* main: minimal_consumables
    pc,                   \* position of main()
    trace,                \* external operations done so far, in order
    runs,                 \* runs of main() completed before this one
    page_title,           \* parse_power_from_page: page_title
    provides,             \* parse_power_from_page: provides
    consumes,             \* parse_power_from_page: consumes
    ambiguous_vals,       \* parse_power_from_page: ambiguous_vals
    rows_done,            \* parse_power_from_page: rows of the for loop already scanned
    power_pc,             \* position of parse_power_from_page
    power_result,         \* value returned by parse_power_from_page
    match_prov,           \* parse_power_from_page: number captured by m_prov
    match_cons,           \* parse_power_from_page: number captured by m_cons
    scanned,              \* provides, consumes, ambiguous_vals as the row loop left them
    q_text,               \* _parse_quantity_and_name: text
    q_count,              \* the count the text was written with
    q_name,               \* the component name the text was written with
    q_shape,              \* the shape the text was written in, 1..4
    q_pc,                 \* position of _parse_quantity_and_name
    q_result,             \* value returned by _parse_quantity_and_name
    build_cost_heading,   \* scrape_recipe_from_page: build_cost_heading is not None
    section,              \* the siblings that follow the Build Cost heading
    recipe_heading_span,  \* scrape_recipe_from_page: what soup.find('span', id='Recipe') gives
    recipe,               \* scrape_recipe_from_page: recipe
    parsed_via,           \* scrape_recipe_from_page: parsed_via
    sib,                  \* index of the sibling the for loop is at
    table_rows,           \* rows of the table already parsed
    tried,                \* the strategies run so far, in order
    yielded,              \* the strategies that appended an entry to recipe
    r_pc,                 \* position of scrape_recipe_from_page
    page_rows,            \* parse_consumables_from_page: the <tr> rows of the page
    c_results,            \* parse_consumables_from_page: results
    c_texts,              \* the text in which the duration of each entry of results was looked for
    c_i,                  \* index of the row the for loop is at
    c_pc,                 \* position of parse_consumables_from_page
    consumables           \* value returned by parse_consumables_from_page

mainVars == <<update, file, prior, item_links, i, responses, all_item_data,
              existing_names, minimal_consumables, pc, trace, runs>>
powerVars == <<page_title, provides, consumes, ambiguous_vals, rows_done,
               power_pc, power_result, match_prov, match_cons, scanned>>
quantityVars == <<q_text, q_count, q_name, q_shape, q_pc, q_result>>
recipeVars == <<build_cost_heading, section, recipe_heading_span, recipe,
                parsed_via, sib, table_rows, tried, yielded, r_pc>>
consumableVars == <<page_rows, c_results, c_texts, c_i, c_pc, consumables>>
vars == <<update, file, prior, item_links, i, responses, all_item_data,
          existing_names, minimal_consumables, pc, trace, runs,
          page_title, provides, consumes, ambiguous_vals, rows_done,
          power_pc, power_result, match_prov, match_cons, scanned,
          q_text, q_count, q_name, q_shape, q_pc, q_result,
          build_cost_heading, section, recipe_heading_span, recipe,
          parsed_via, sib, table_rows, tried, yielded, r_pc,
          page_rows, c_results, c_texts, c_i, c_pc, consumables>>

----------------------------------------------------------------------------
(* Bounds *)

MaxLinks == 2        \* links on the category page
MaxSnapshot == 2     \* elements of a prior snapshot
MaxRows == 2         \* table rows of a page scanned for power
MaxVal == 3          \* largest number on a page scanned for power
MaxCount == 11       \* largest count written in a quantity string
MaxSiblings == 2     \* siblings that follow the Build Cost heading
MaxTableRows == 2    \* rows of a Build Cost table or of a legacy Recipe table
MaxPageRows == 2     \* table rows of a page scanned for consumables
MaxRuns == 2         \* runs of main() that follow the first one

----------------------------------------------------------------------------
(* Python values *)

\* Python's None, as the value of dict.get for a missing key or of a failed match
None == "None"

\* dict.get(key, default)
Get(d, key, default) == IF key \in DOMAIN d THEN d[key] ELSE default

\* truth value of a name or of a match: None and the empty string are falsy
Truthy(x) == x /= None /\ x /= ""

SeqsUpTo(S, n) == UNION {[1..k -> S] : k \in 0..n}

Range(s) == {s[k] : k \in 1..Len(s)}

\* an element of a JSON document that is not an object (a number, a string)
NonObject == [NotADict |-> TRUE]

IsDict(x) == "NotADict" \notin DOMAIN x

----------------------------------------------------------------------------
(* parse_power_from_page *)

LABELS_CONSUME ==
    { <<"power", "draw">>, <<"power", "consumption">>, <<"consumption">>,
      <<"consumes">>, <<"power", "required">>, <<"required", "power">>,
      <<"power", "requirement">>, <<"use">>, <<"usage">> }

LABELS_PROVIDE ==
    { <<"power", "provided">>, <<"power", "output">>, <<"power", "generation">>,
      <<"generates">>, <<"generated">>, <<"provided", "power">>,
      <<"generator", "output">>, <<"produces">>, <<"produced">> }

\* str.lower(), on the words the pages of the model use
Lower(w) ==
    CASE w = "Wind" -> "wind"
      [] w = "Generator" -> "generator"
      [] w = "GENERATOR" -> "generator"
      [] w = "Trap" -> "trap"
      [] w = "Power" -> "power"
      [] w = "Output" -> "output"
      [] w = "Draw" -> "draw"
      [] w = "Usage" -> "usage"
      [] w = "Weight" -> "weight"
      [] OTHER -> w

LowerAll(ws) == [k \in 1..Len(ws) |-> Lower(ws[k])]

\* `phrase in text`, text and phrase being sequences of words
Contains(text, phrase) ==
    \E k \in 1..(Len(text) - Len(phrase) + 1) :
        SubSeq(text, k, k + Len(phrase) - 1) = phrase

\* None where Python has an int or None (a failed match)
NoMatch == 0 - 1

\* _extract_int: the first run of digits of the text, None when there is none.
\* A text is modelled by the numbers written in it, in order.
_extract_int(text) == IF Len(text) = 0 THEN NoMatch ELSE text[1]

\* `if n:` on the result of _extract_int: None and 0 are falsy
TruthyInt(n) == n /= NoMatch /\ n /= 0

Max(a, b) == IF a >= b THEN a ELSE b

RECURSIVE MaxOf(_)
MaxOf(s) == IF Len(s) = 1 THEN s[1] ELSE Max(s[1], MaxOf(Tail(s)))

\* is_generator_page
IsGeneratorPage(title) == Contains(LowerAll(title), <<"generator">>)

\* one iteration of `for row in soup.find_all('tr')`.
\* row = [th, ntd, label, val_text]; st = [provides, consumes, ambiguous_vals]
HasCells(row) == row.ntd >= 2 \/ (row.ntd = 1 /\ row.th)

ScanRow(st, row) ==
    LET label == LowerAll(row.label)
        n == _extract_int(row.val_text)
    IN  IF ~HasCells(row) THEN st
        ELSE IF \E lbl \in LABELS_PROVIDE : Contains(label, lbl)
        THEN IF TruthyInt(n) THEN [st EXCEPT !.provides = Max(st.provides, n)] ELSE st
        ELSE IF \E lbl \in LABELS_CONSUME : Contains(label, lbl)
        THEN IF TruthyInt(n) THEN [st EXCEPT !.consumes = Max(st.consumes, n)] ELSE st
        ELSE IF Contains(label, <<"power">>)
        THEN IF TruthyInt(n)
             THEN [st EXCEPT !.ambiguous_vals = Append(st.ambiguous_vals, n)] ELSE st
        ELSE st

RECURSIVE TableScan(_, _)
TableScan(st, rows) ==
    IF Len(rows) = 0 THEN st ELSE TableScan(ScanRow(st, rows[1]), Tail(rows))

\* the text-based fallback without the `provides == 0` and `consumes == 0` tests
TextFallback_overrides(st, m_prov, m_cons) ==
    LET p == IF m_prov /= NoMatch THEN m_prov ELSE st.provides
        c == IF m_cons /= NoMatch /\ m_prov = NoMatch THEN m_cons ELSE st.consumes
    IN  [st EXCEPT !.provides = p, !.consumes = c]

\* the text-based fallback; m_prov and m_cons are the numbers captured by the
\* two re.search calls on the page text, NoMatch when the search fails
TextFallback(st, m_prov, m_cons) ==
    LET p == IF m_prov /= NoMatch /\ st.provides = 0 THEN m_prov ELSE st.provides
        c == IF m_cons /= NoMatch /\ st.consumes = 0 /\ m_prov = NoMatch
             THEN m_cons ELSE st.consumes
    IN  [st EXCEPT !.provides = p, !.consumes = c]

\* resolution by the first ambiguous value instead of the largest
ResolveAmbiguous_first(st, is_generator_page) ==
    IF Len(st.ambiguous_vals) > 0 /\ st.provides = 0 /\ st.consumes = 0
    THEN IF is_generator_page
         THEN [st EXCEPT !.provides = st.ambiguous_vals[1]]
         ELSE [st EXCEPT !.consumes = st.ambiguous_vals[1]]
    ELSE st

\* resolution of the ambiguous values
ResolveAmbiguous(st, is_generator_page) ==
    IF Len(st.ambiguous_vals) > 0 /\ st.provides = 0 /\ st.consumes = 0
    THEN IF is_generator_page
         THEN [st EXCEPT !.provides = MaxOf(st.ambiguous_vals)]
         ELSE [st EXCEPT !.consumes = MaxOf(st.ambiguous_vals)]
    ELSE st

\* the returned dict without the final heuristic
PowerResult_uncorrected(st) == [Provides |-> st.provides, Consumes |-> st.consumes]

\* the final heuristic and the returned dict
PowerResult(st) ==
    [Provides |-> st.provides,
     Consumes |-> IF st.provides > 0 /\ st.consumes > 0 THEN 0 ELSE st.consumes]

PowerStart == [provides |-> 0, consumes |-> 0, ambiguous_vals |-> <<>>]

\* page = [title, rows, m_prov, m_cons]
parse_power_from_page(page) ==
    PowerResult(
        ResolveAmbiguous(
            TextFallback(TableScan(PowerStart, page.rows), page.m_prov, page.m_cons),
            IsGeneratorPage(page.title)))

----------------------------------------------------------------------------
(* parse_consumables_from_page: the de-duplication of the candidate entries *)

\* a dict as the sequence of its [k, v] entries in insertion order
DictSet(d, k, v) ==
    IF \E n \in 1..Len(d) : d[n].k = k
    THEN [n \in 1..Len(d) |-> IF d[n].k = k THEN [k |-> k, v |-> v] ELSE d[n]]
    ELSE Append(d, [k |-> k, v |-> v])

DictHas(d, k) == \E n \in 1..Len(d) : d[n].k = k

DictGet(d, k) == (CHOOSE e \in Range(d) : e.k = k).v

DictValues(d) == [n \in 1..Len(d) |-> d[n].v]

RECURSIVE DedupByName(_, _)
DedupByName(results, by_name) ==
    IF Len(results) = 0 THEN by_name
    ELSE LET r == results[1]
             keep == ~DictHas(by_name, r.Name) \/ r.Hours > DictGet(by_name, r.Name).Hours
         IN  DedupByName(Tail(results),
                         IF keep THEN DictSet(by_name, r.Name, r) ELSE by_name)

\* results: the candidate entries the table scans collected, in order
parse_consumables_from_page(results) == DictValues(DedupByName(results, <<>>))

----------------------------------------------------------------------------
(* The wiki *)

\* hrefs of the category page
Links == {"/Pentashield", "/Wind_Trap", "/Wind%20Trap"}

\* unquote(link.split('/')[-1]).replace('_', ' ').strip()
LinkName(link) ==
    CASE link = "/Pentashield" -> "Pentashield"
      [] link = "/Wind_Trap" -> "Wind Trap"
      [] link = "/Wind%20Trap" -> "Wind Trap"

\* requests.exceptions.RequestException raised by requests.get / raise_for_status
RequestException == [error |-> "RequestException"]

PowerRow(label, n) == [th |-> TRUE, ntd |-> 1, label |-> label, val_text |-> <<n>>]

\* item pages: what the recipe and water scans find, the candidate consumable
\* entries, and the input of the power scan
GeneratorPage ==
    [recipe |-> <<[Name |-> "Steel", Count |-> 4]>>,
     water |-> 0,
     consumables |-> << [Name |-> "Fuel Cell", Hours |-> 1],
                        [Name |-> "Fuel Cell", Hours |-> 2],
                        [Name |-> "Wind Trap", Hours |-> 1] >>,
     power |-> [title |-> <<"Wind", "Generator">>,
                rows |-> << PowerRow(<<"Power", "Output">>, 12),
                            PowerRow(<<"Power", "Draw">>, 3) >>,
                m_prov |-> 12, m_cons |-> 3]]

PlainPage ==
    [recipe |-> <<>>,
     water |-> 500,
     consumables |-> << [Name |-> "Lubricant", Hours |-> 1] >>,
     power |-> [title |-> <<"Wind", "Trap">>,
                rows |-> << PowerRow(<<"Power">>, 8) >>,
                m_prov |-> NoMatch, m_cons |-> NoMatch]]

Pages == {GeneratorPage, PlainPage}

Responses == Pages \cup {RequestException}

\* the None that scrape_recipe_from_page returns on a RequestException
NoResult == [none |-> TRUE]

\* scrape_recipe_from_page, from the response of requests.get
scrape_recipe_from_page(response) ==
    IF response = RequestException THEN NoResult
    ELSE [Recipe |-> response.recipe,
          Power |-> parse_power_from_page(response.power),
          WaterCapacity |-> response.water,
          Consumables |-> parse_consumables_from_page(response.consumables)]

\* main: the item_data built for a link whose result is not None
ItemData(link, result) ==
    [Name |-> LinkName(link),
     Recipe |-> result.Recipe,
     Power |-> result.Power,
     WaterCapacity |-> result.WaterCapacity,
     Consumables |-> result.Consumables]

----------------------------------------------------------------------------
(* merge_manual_items *)

manual ==
    << [Name |-> "Pentashield",
        Recipe |-> << [Name |-> "Calibrated Servoks", Count |-> 6],
                      [Name |-> "Steel", Count |-> 2],
                      [Name |-> "Cobalt Paste", Count |-> 20] >>,
        Power |-> [Provides |-> 0, Consumes |-> 6],
        WaterCapacity |-> 0] >>

\* {i.get("Name"): i for i in items}, then by_name[m["Name"]] = m for m in manual
RECURSIVE ByName(_, _)
ByName(items, by_name) ==
    IF Len(items) = 0 THEN by_name
    ELSE ByName(Tail(items), DictSet(by_name, Get(items[1], "Name", None), items[1]))

\* i.get raises AttributeError on an element that is not a dict
MergeRaises(items) == \E n \in 1..Len(items) : ~IsDict(items[n])

\* the manual items appended without the dict keyed by Name
merge_manual_items_append(items) == items \o manual

\* the input records written over the manual ones
merge_manual_items_input_wins(items) == DictValues(ByName(items, ByName(manual, <<>>)))

\* the manual items moved to the end of the list
merge_manual_items_moved(items) ==
    LET others == {n \in 1..Len(items) : Get(items[n], "Name", None) /= manual[1].Name}
        Nth(k) == CHOOSE n \in others : Cardinality({o \in others : o < n}) = k - 1
    IN  [k \in 1..Cardinality(others) |-> items[Nth(k)]] \o manual

\* the records given back in the reverse order
merge_manual_items_reversed(items) ==
    LET merged == DictValues(ByName(manual, ByName(items, <<>>)))
    IN  [k \in 1..Len(merged) |-> merged[Len(merged) + 1 - k]]

merge_manual_items(items) == DictValues(ByName(manual, ByName(items, <<>>)))

----------------------------------------------------------------------------
(* main: the closure pass over the consumables *)

Placeholder(cname) ==
    [Name |-> cname,
     Recipe |-> <<>>,
     Power |-> [Provides |-> 0, Consumes |-> 0],
     WaterCapacity |-> 0,
     IsConsumable |-> TRUE]

Names(items) == {Get(items[n], "Name", None) : n \in 1..Len(items)}

\* the inner loop without existing_names.add(cname)
RECURSIVE ScanConsumables_noadd(_, _)
ScanConsumables_noadd(cs, st) ==
    IF Len(cs) = 0 THEN st
    ELSE LET cname == Get(cs[1], "Name", None)
         IN  ScanConsumables_noadd(Tail(cs),
                 IF Truthy(cname) /\ cname \notin st.existing_names
                 THEN [existing_names |-> st.existing_names,
                       minimal_consumables |->
                           Append(st.minimal_consumables, Placeholder(cname))]
                 ELSE st)

\* the inner loop: for c in (item.get("Consumables") or [])
\* st = [existing_names, minimal_consumables]
RECURSIVE ScanConsumables(_, _)
ScanConsumables(cs, st) ==
    IF Len(cs) = 0 THEN st
    ELSE LET cname == Get(cs[1], "Name", None)
         IN  ScanConsumables(Tail(cs),
                 IF Truthy(cname) /\ cname \notin st.existing_names
                 THEN [existing_names |-> st.existing_names \cup {cname},
                       minimal_consumables |->
                           Append(st.minimal_consumables, Placeholder(cname))]
                 ELSE st)

\* the outer loop left after its first item
ScanItems_first(items, st) ==
    IF Len(items) = 0 THEN st
    ELSE ScanConsumables(Get(items[1], "Consumables", <<>>), st)

\* the outer loop: for item in list(all_item_data)
RECURSIVE ScanItems(_, _)
ScanItems(items, st) ==
    IF Len(items) = 0 THEN st
    ELSE ScanItems(Tail(items),
                   ScanConsumables(Get(items[1], "Consumables", <<>>), st))

ClosureScan(items) ==
    ScanItems(items, [existing_names |-> Names(items), minimal_consumables |-> <<>>])

----------------------------------------------------------------------------
(* The snapshot file *)

NoFile == [kind |-> "absent", items |-> <<>>]
CorruptFile == [kind |-> "corrupt", items |-> <<>>]
JsonFile(items) == [kind |-> "json", items |-> items]

ScrapedPentashield ==
    [Name |-> "Pentashield",
     Recipe |-> <<[Name |-> "Steel", Count |-> 1]>>,
     Power |-> [Provides |-> 0, Consumes |-> 2],
     WaterCapacity |-> 0,
     Consumables |-> <<[Name |-> "Fuel Cell", Hours |-> 1]>>]

WindTrap ==
    [Name |-> "Wind Trap",
     Recipe |-> <<>>,
     Power |-> [Provides |-> 0, Consumes |-> 8],
     WaterCapacity |-> 500,
     Consumables |-> <<[Name |-> "Fuel Cell", Hours |-> 2],
                       [Name |-> "Lubricant", Hours |-> 1],
                       [Name |-> "Fuel Cell", Hours |-> 1]>>]

EditedWindTrap ==
    [Name |-> "Wind Trap",
     Recipe |-> <<[Name |-> "Steel", Count |-> 4]>>,
     Power |-> [Provides |-> 0, Consumes |-> 8],
     WaterCapacity |-> 0,
     Consumables |-> <<[Name |-> "", Hours |-> 1]>>]

\* elements a snapshot on disk may hold: records of earlier runs (scraped,
\* manual, placeholder), hand-edited records, and values that are not objects
SnapshotElements ==
    {ScrapedPentashield, WindTrap, EditedWindTrap, Placeholder("Lubricant"),
     manual[1], NonObject}

Snapshots ==
    {NoFile, CorruptFile} \cup {JsonFile(s) : s \in SeqsUpTo(SnapshotElements, MaxSnapshot)}

----------------------------------------------------------------------------
(* main *)

Event(op, target) == [op |-> op, target |-> target]

MainInit ==
    /\ update \in BOOLEAN
    /\ file \in Snapshots
    /\ prior = file
    /\ item_links = <<>>
    /\ i = 1
    /\ responses = <<>>
    /\ all_item_data = <<>>
    /\ existing_names = {}
    /\ minimal_consumables = <<>>
    /\ pc = "start"
    /\ trace = <<>>
    /\ runs = 0

\* the links fetched whatever args.update is
GetPlaceableLinks_always ==
    /\ pc = "start"
    /\ \E links \in SeqsUpTo(Links, MaxLinks) :
        /\ item_links' = links
        /\ pc' = IF Len(links) = 0 THEN "merge" ELSE "scrape"
    /\ trace' = Append(trace, Event("GET", "category"))
    /\ UNCHANGED <<runs, update, file, prior, i, responses, all_item_data,
                   existing_names, minimal_consumables>>

\* update mode starting from the records of the snapshot
GetPlaceableLinks_seeded ==
    /\ pc = "start"
    /\ update
    /\ \E links \in SeqsUpTo(Links, MaxLinks) :
        /\ item_links' = links
        /\ pc' = IF Len(links) = 0 THEN "merge" ELSE "scrape"
    /\ trace' = Append(trace, Event("GET", "category"))
    /\ all_item_data' = file.items
    /\ UNCHANGED <<runs, update, file, prior, i, responses,
                   existing_names, minimal_consumables>>

\* update mode: get_placeable_links(CATEGORY_URL); a RequestException gives []
GetPlaceableLinks ==
    /\ pc = "start"
    /\ update
    /\ \E links \in SeqsUpTo(Links, MaxLinks) :
        /\ item_links' = links
        /\ pc' = IF Len(links) = 0 THEN "merge" ELSE "scrape"
    /\ trace' = Append(trace, Event("GET", "category"))
    /\ UNCHANGED <<runs, update, file, prior, i, responses, all_item_data,
                   existing_names, minimal_consumables>>

\* a RequestException that is not caught in scrape_recipe_from_page
ScrapeLink_abort ==
    /\ pc = "scrape"
    /\ \E response \in Responses :
        LET link == item_links[i]
            result == scrape_recipe_from_page(response)
        IN  /\ responses' = Append(responses, response)
            /\ trace' = Append(trace, Event("GET", link))
            /\ all_item_data' = IF result /= NoResult
                                THEN Append(all_item_data, ItemData(link, result))
                                ELSE all_item_data
            /\ pc' = IF result = NoResult THEN "fatal"
                     ELSE IF i = Len(item_links) THEN "merge" ELSE "scrape"
    /\ i' = i + 1
    /\ UNCHANGED <<runs, update, file, prior, item_links, existing_names,
                   minimal_consumables>>

\* the records saved after every link
ScrapeLink_checkpoint ==
    /\ pc = "scrape"
    /\ \E response \in Responses :
        LET link == item_links[i]
            result == scrape_recipe_from_page(response)
        IN  /\ responses' = Append(responses, response)
            /\ trace' = Append(Append(trace, Event("GET", link)),
                               Event("write", "items_data.json"))
            /\ all_item_data' = IF result /= NoResult
                                THEN Append(all_item_data, ItemData(link, result))
                                ELSE all_item_data
    /\ file' = JsonFile(all_item_data')
    /\ i' = i + 1
    /\ pc' = IF i = Len(item_links) THEN "merge" ELSE "scrape"
    /\ UNCHANGED <<runs, update, prior, item_links, existing_names,
                   minimal_consumables>>

\* update mode: one iteration of `for i, link in enumerate(item_links)`
ScrapeLink ==
    /\ pc = "scrape"
    /\ \E response \in Responses :
        LET link == item_links[i]
            result == scrape_recipe_from_page(response)
        IN  /\ responses' = Append(responses, response)
            /\ trace' = Append(trace, Event("GET", link))
            /\ all_item_data' = IF result /= NoResult
                                THEN Append(all_item_data, ItemData(link, result))
                                ELSE all_item_data
    /\ i' = i + 1
    /\ pc' = IF i = Len(item_links) THEN "merge" ELSE "scrape"
    /\ UNCHANGED <<runs, update, file, prior, item_links, existing_names,
                   minimal_consumables>>

\* json.load without the try/except around it
LoadSnapshot_nocatch ==
    /\ pc = "start"
    /\ ~update
    /\ IF file.kind = "absent"
       THEN UNCHANGED <<all_item_data, trace>>
       ELSE /\ trace' = Append(trace, Event("read", "items_data.json"))
            /\ all_item_data' = IF file.kind = "corrupt" THEN <<>> ELSE file.items
    /\ pc' = IF file.kind = "corrupt" THEN "fatal" ELSE "merge"
    /\ UNCHANGED <<runs, update, file, prior, item_links, i, responses,
                   existing_names, minimal_consumables>>

\* offline mode: os.path.exists, then json.load inside try/except
LoadSnapshot ==
    /\ pc = "start"
    /\ ~update
    /\ IF file.kind = "absent"
       THEN UNCHANGED <<all_item_data, trace>>
       ELSE /\ trace' = Append(trace, Event("read", "items_data.json"))
            /\ all_item_data' = IF file.kind = "corrupt" THEN <<>> ELSE file.items
    /\ pc' = "merge"
    /\ UNCHANGED <<runs, update, file, prior, item_links, i, responses,
                   existing_names, minimal_consumables>>

\* all_item_data = merge_manual_items(all_item_data); an exception raised in
\* it is caught by the outer except, which ends the run
MergeManual ==
    /\ pc = "merge"
    /\ trace' = Append(trace, Event("merge", ""))
    /\ IF MergeRaises(all_item_data)
       THEN /\ pc' = "fatal"
            /\ UNCHANGED all_item_data
       ELSE /\ pc' = "closure"
            /\ all_item_data' = merge_manual_items(all_item_data)
    /\ UNCHANGED <<runs, update, file, prior, item_links, i, responses,
                   existing_names, minimal_consumables>>

\* the closure pass and all_item_data.extend(minimal_consumables)
ClosurePass ==
    /\ pc = "closure"
    /\ LET st == ClosureScan(all_item_data)
       IN  /\ existing_names' = st.existing_names
           /\ minimal_consumables' = st.minimal_consumables
           /\ all_item_data' = all_item_data \o st.minimal_consumables
    /\ trace' = Append(trace, Event("closure", ""))
    /\ pc' = "save"
    /\ UNCHANGED <<runs, update, file, prior, item_links, i, responses>>

\* json.dump(all_item_data, f) on the file opened with 'w'
Save ==
    /\ pc = "save"
    /\ file' = JsonFile(all_item_data)
    /\ trace' = Append(trace, Event("write", "items_data.json"))
    /\ pc' = "done"
    /\ UNCHANGED <<runs, update, prior, item_links, i, responses, all_item_data,
                   existing_names, minimal_consumables>>

\* the program is started again in offline mode on the file the completed
\* run left
Rerun ==
    /\ pc = "done"
    /\ runs < MaxRuns
    /\ runs' = runs + 1
    /\ update' = FALSE
    /\ prior' = file
    /\ item_links' = <<>>
    /\ i' = 1
    /\ responses' = <<>>
    /\ all_item_data' = <<>>
    /\ existing_names' = {}
    /\ minimal_consumables' = <<>>
    /\ pc' = "start"
    /\ trace' = <<>>
    /\ UNCHANGED file

----------------------------------------------------------------------------
(* parse_power_from_page, step by step on the rows and texts of any page *)

Titles == { <<"Wind", "Generator">>, <<"GENERATOR">>, <<"Wind", "Trap">>, <<>> }

PowerLabels ==
    { <<"Power", "Output">>, <<"Power", "Draw">>, <<"Power">>,
      <<"Power", "Output", "Usage">>, <<"Weight">> }

ValTexts == {<<>>} \cup {<<n>> : n \in 0..MaxVal}

RowShapes == { [th |-> TRUE, ntd |-> 1], [th |-> FALSE, ntd |-> 2],
               [th |-> FALSE, ntd |-> 1] }

PowerRows ==
    { [th |-> sh.th, ntd |-> sh.ntd, label |-> l, val_text |-> v] :
        sh \in RowShapes, l \in PowerLabels, v \in ValTexts }

Matches == {NoMatch} \cup (0..MaxVal)

PowerState == [provides |-> provides, consumes |-> consumes,
               ambiguous_vals |-> ambiguous_vals]

PowerInit ==
    /\ page_title \in Titles
    /\ provides = 0
    /\ consumes = 0
    /\ ambiguous_vals = <<>>
    /\ rows_done = 0
    /\ power_pc = "scan"
    /\ power_result = NoResult
    /\ match_prov = NoMatch
    /\ match_cons = NoMatch
    /\ scanned = PowerStart

\* one more row of `for row in soup.find_all('tr')`
PowerScanRow ==
    /\ power_pc = "scan"
    /\ rows_done < MaxRows
    /\ \E row \in PowerRows :
        LET st == ScanRow(PowerState, row)
        IN  /\ provides' = st.provides
            /\ consumes' = st.consumes
            /\ ambiguous_vals' = st.ambiguous_vals
    /\ rows_done' = rows_done + 1
    /\ UNCHANGED <<page_title, power_pc, power_result, match_prov, match_cons,
                   scanned>>

\* the loop is over; the two re.search calls on the page text
PowerTextFallback ==
    /\ power_pc = "scan"
    /\ \E m_prov \in Matches, m_cons \in Matches :
        LET st == TextFallback(PowerState, m_prov, m_cons)
        IN  /\ provides' = st.provides
            /\ consumes' = st.consumes
            /\ match_prov' = m_prov
            /\ match_cons' = m_cons
    /\ scanned' = PowerState
    /\ power_pc' = "resolve"
    /\ UNCHANGED <<page_title, ambiguous_vals, rows_done, power_result>>

PowerResolve ==
    /\ power_pc = "resolve"
    /\ LET st == ResolveAmbiguous(PowerState, IsGeneratorPage(page_title))
       IN  /\ provides' = st.provides
           /\ consumes' = st.consumes
    /\ power_pc' = "correct"
    /\ UNCHANGED <<page_title, ambiguous_vals, rows_done, power_result,
                   match_prov, match_cons, scanned>>

\* the final heuristic and the return; provides and consumes stay as they
\* are printed before the heuristic
PowerReturn ==
    /\ power_pc = "correct"
    /\ power_result' = PowerResult(PowerState)
    /\ power_pc' = "returned"
    /\ UNCHANGED <<page_title, provides, consumes, ambiguous_vals, rows_done,
                   match_prov, match_cons, scanned>>

----------------------------------------------------------------------------
(* _parse_quantity_and_name; a text is the sequence of its characters *)

DigitChars == <<"0", "1", "2", "3", "4", "5", "6", "7", "8", "9">>

IsDigit(c) == \E d \in 1..10 : DigitChars[d] = c

DigitValue(c) == (CHOOSE d \in 1..10 : DigitChars[d] = c) - 1

\* int() of a run of digits
RECURSIVE ToInt(_)
ToInt(ds) ==
    IF Len(ds) = 0 THEN 0
    ELSE 10 * ToInt(SubSeq(ds, 1, Len(ds) - 1)) + DigitValue(ds[Len(ds)])

IsSpace(c) == c = " "

\* str.strip()
RECURSIVE Strip(_)
Strip(t) ==
    IF Len(t) = 0 THEN t
    ELSE IF IsSpace(t[1]) THEN Strip(Tail(t))
    ELSE IF IsSpace(t[Len(t)]) THEN Strip(SubSeq(t, 1, Len(t) - 1))
    ELSE t

\* re.sub(r"\s+", " ", text)
RECURSIVE CollapseSpaces(_)
CollapseSpaces(t) ==
    IF Len(t) <= 1 THEN t
    ELSE IF IsSpace(t[1]) /\ IsSpace(t[2]) THEN CollapseSpaces(Tail(t))
    ELSE <<t[1]>> \o CollapseSpaces(Tail(t))

\* the length of the run of digits that starts at position k
RECURSIVE DigitRun(_, _)
DigitRun(t, k) == IF k <= Len(t) /\ IsDigit(t[k]) THEN 1 + DigitRun(t, k + 1) ELSE 0

\* the position reached by \s* from position k
RECURSIVE SkipSpaces(_, _)
SkipSpaces(t, k) == IF k <= Len(t) /\ IsSpace(t[k]) THEN SkipSpaces(t, k + 1) ELSE k

IsX(t, k) == k <= Len(t) /\ t[k] \in {"x", "X"}

\* the (None, None) of a text no pattern matches; a name is a text, None
\* being written as the empty text
NoPair == [qty |-> NoMatch, name |-> <<>>]

Pair(qty, name) == [qty |-> ToInt(qty), name |-> Strip(name)]

\* ^(?P<qty>\d+)\s*[xX]\s*(?P<name>.+)$
MatchCountXName(t) ==
    LET d == DigitRun(t, 1)
        x == SkipSpaces(t, d + 1)
        n == SkipSpaces(t, x + 1)
    IN  IF d >= 1 /\ IsX(t, x) /\ n <= Len(t)
        THEN Pair(SubSeq(t, 1, d), SubSeq(t, n, Len(t)))
        ELSE NoPair

\* \s*[xX]\s*(?P<qty>\d+)$ from position k: the position of the digits, 0 if
\* there is no match
TailXCount(t, k) ==
    LET x == SkipSpaces(t, k)
        n == SkipSpaces(t, x + 1)
    IN  IF IsX(t, x) /\ n <= Len(t) /\ DigitRun(t, n) = Len(t) - n + 1 THEN n ELSE 0

\* ^(?P<name>.+?)\s*[xX]\s*(?P<qty>\d+)$, the name being the shortest one
MatchNameXCount(t) ==
    LET ends == {k \in 1..Len(t) : TailXCount(t, k + 1) > 0}
    IN  IF ends = {} THEN NoPair
        ELSE LET k == CHOOSE e \in ends : \A o \in ends : e <= o
             IN  Pair(SubSeq(t, TailXCount(t, k + 1), Len(t)), SubSeq(t, 1, k))

\* \s*\((?P<qty>\d+)\)$ from position k: the position of the digits, 0 if
\* there is no match
TailParenCount(t, k) ==
    LET o == SkipSpaces(t, k)
    IN  IF o <= Len(t) /\ t[o] = "(" /\ t[Len(t)] = ")"
           /\ Len(t) - o >= 2 /\ DigitRun(t, o + 1) = Len(t) - o - 1
        THEN o + 1 ELSE 0

\* ^(?P<name>.+?)\s*\((?P<qty>\d+)\)$, the name being the shortest one
MatchNameParenCount(t) ==
    LET ends == {k \in 1..Len(t) : TailParenCount(t, k + 1) > 0}
    IN  IF ends = {} THEN NoPair
        ELSE LET k == CHOOSE e \in ends : \A o \in ends : e <= o
             IN  Pair(SubSeq(t, TailParenCount(t, k + 1), Len(t) - 1), SubSeq(t, 1, k))

\* ^(?P<qty>\d+)\s+(?P<name>.+)$
MatchCountName(t) ==
    LET d == DigitRun(t, 1)
        n == SkipSpaces(t, d + 1)
    IN  IF d >= 1 /\ n > d + 1 /\ n <= Len(t)
        THEN Pair(SubSeq(t, 1, d), SubSeq(t, n, Len(t)))
        ELSE NoPair

\* the fallback ^(\d+)\s+(.*)$
MatchCountRest(t) ==
    LET d == DigitRun(t, 1)
        n == SkipSpaces(t, d + 1)
    IN  IF d >= 1 /\ n > d + 1
        THEN Pair(SubSeq(t, 1, d), SubSeq(t, n, Len(t)))
        ELSE NoPair

\* the patterns in the order of the list, the first match wins
_parse_quantity_and_name(text) ==
    LET t == Strip(CollapseSpaces(text))
    IN  IF MatchCountXName(t) /= NoPair THEN MatchCountXName(t)
        ELSE IF MatchNameXCount(t) /= NoPair THEN MatchNameXCount(t)
        ELSE IF MatchNameParenCount(t) /= NoPair THEN MatchNameParenCount(t)
        ELSE IF MatchCountName(t) /= NoPair THEN MatchCountName(t)
        ELSE MatchCountRest(t)

\* the decimal digits of a number
RECURSIVE Decimal(_)
Decimal(n) ==
    IF n < 10 THEN <<DigitChars[n + 1]>>
    ELSE Decimal(n \div 10) \o <<DigitChars[(n % 10) + 1]>>

Plank == <<"P", "l", "a", "n", "k">>
Box == <<"B", "o", "x">>
CobaltPaste == <<"C", "o", "b", "a", "l", "t", " ", "P", "a", "s", "t", "e">>
Xenon == <<"X", "e", "n", "o", "n">>

ComponentNames == {Plank, Box, CobaltPaste, Xenon}

\* the four shapes: "<N>x Name", "Name x<N>", "Name (<N>)", "<N> Name"
ShapeText(shape, n, name) ==
    CASE shape = 1 -> Decimal(n) \o <<"x", " ">> \o name
      [] shape = 2 -> name \o <<" ", "x">> \o Decimal(n)
      [] shape = 3 -> name \o <<" ", "(">> \o Decimal(n) \o <<")">>
      [] shape = 4 -> Decimal(n) \o <<" ">> \o name

QuantityInit ==
    /\ q_count \in 1..MaxCount
    /\ q_name \in ComponentNames
    /\ q_shape \in 1..4
    /\ q_text = ShapeText(q_shape, q_count, q_name)
    /\ q_pc = "call"
    /\ q_result = NoPair

QuantityIdle ==
    /\ q_count = 1
    /\ q_name = <<>>
    /\ q_shape = 1
    /\ q_text = <<>>
    /\ q_pc = "idle"
    /\ q_result = NoPair

ParseQuantity ==
    /\ q_pc = "call"
    /\ q_result' = _parse_quantity_and_name(q_text)
    /\ q_pc' = "returned"
    /\ UNCHANGED <<q_text, q_count, q_name, q_shape>>

----------------------------------------------------------------------------
(* scrape_recipe_from_page: the texts of a page and the regular expressions *)

UpperLetters ==
    <<"A", "B", "C", "D", "E", "F", "G", "H", "I", "J", "K", "L", "M",
      "N", "O", "P", "Q", "R", "S", "T", "U", "V", "W", "X", "Y", "Z">>

LowerLetters ==
    <<"a", "b", "c", "d", "e", "f", "g", "h", "i", "j", "k", "l", "m",
      "n", "o", "p", "q", "r", "s", "t", "u", "v", "w", "x", "y", "z">>

\* [A-Za-z]
IsLetter(c) == \E k \in 1..26 : c = UpperLetters[k] \/ c = LowerLetters[k]

\* str.lower() of a character
LowerChar(c) ==
    IF \E k \in 1..26 : c = UpperLetters[k]
    THEN LowerLetters[CHOOSE k \in 1..26 : c = UpperLetters[k]]
    ELSE c

\* str.lower()
LowerText(t) == [k \in 1..Len(t) |-> LowerChar(t[k])]

\* [A-Za-z0-9 '\-()]
IsNameChar(c) == IsLetter(c) \/ IsDigit(c) \/ c \in {" ", "'", "-", "(", ")"}

\* \w
IsWordChar(c) == IsLetter(c) \/ IsDigit(c) \/ c = "_"

\* re.search(r"\d+", text): the first run of digits as an int, None if none
FirstInt(t) ==
    LET starts == {k \in 1..Len(t) : IsDigit(t[k])}
    IN  IF starts = {} THEN NoMatch
        ELSE LET k == CHOOSE s \in starts : \A o \in starts : s <= o
             IN  ToInt(SubSeq(t, k, k + DigitRun(t, k) - 1))

\* re.search(r"x\s*(\d+)", text, re.IGNORECASE): the number, None if no match
SearchXCount(t) ==
    LET starts == {k \in 1..Len(t) :
                       IsX(t, k) /\ DigitRun(t, SkipSpaces(t, k + 1)) >= 1}
    IN  IF starts = {} THEN NoMatch
        ELSE LET k == CHOOSE s \in starts : \A o \in starts : s <= o
                 n == SkipSpaces(t, k + 1)
             IN  ToInt(SubSeq(t, n, n + DigitRun(t, n) - 1))

\* re.search(r"(\d+)\s*[xX]", text): the number, None if no match
SearchCountX(t) ==
    LET starts == {k \in 1..Len(t) :
                       /\ IsDigit(t[k])
                       /\ IsX(t, SkipSpaces(t, k + DigitRun(t, k)))}
    IN  IF starts = {} THEN NoMatch
        ELSE LET k == CHOOSE s \in starts : \A o \in starts : s <= o
             IN  ToInt(SubSeq(t, k, k + DigitRun(t, k) - 1))

\* re.sub(r"\b\d+\b|x|\(|\)", "", text, flags=re.IGNORECASE): the text from
\* position k on, without the whole numbers, the x's and the parentheses
RECURSIVE RemoveNoise(_, _)
RemoveNoise(t, k) ==
    IF k > Len(t) THEN <<>>
    ELSE LET d == DigitRun(t, k)
             whole == /\ d >= 1
                      /\ (k = 1 \/ ~IsWordChar(t[k - 1]))
                      /\ (k + d > Len(t) \/ ~IsWordChar(t[k + d]))
         IN  IF whole THEN RemoveNoise(t, k + d)
             ELSE IF IsX(t, k) \/ t[k] \in {"(", ")"} THEN RemoveNoise(t, k + 1)
             ELSE <<t[k]>> \o RemoveNoise(t, k + 1)

\* ([A-Za-z][A-Za-z0-9 '\-()]+?)\s*[xX]\s*(\d+) matched at position s: the
\* position of the last character of the shortest name, 0 if there is no match
NameEndAt(t, s) ==
    LET ends == {e \in (s + 1)..Len(t) :
                     /\ \A k \in (s + 1)..e : IsNameChar(t[k])
                     /\ IsX(t, SkipSpaces(t, e + 1))
                     /\ DigitRun(t, SkipSpaces(t, SkipSpaces(t, e + 1) + 1)) >= 1}
    IN  IF s > Len(t) \/ ~IsLetter(t[s]) \/ ends = {} THEN 0
        ELSE CHOOSE e \in ends : \A o \in ends : e <= o

Entry(name, count) == [Name |-> name, Count |-> count]

GenericLabels ==
    { <<"c", "o", "m", "p", "o", "n", "e", "n", "t", "s">>,
      <<"r", "e", "q", "u", "i", "r", "e", "m", "e", "n", "t", "s">>,
      <<"m", "a", "t", "e", "r", "i", "a", "l", "s">> }

\* for m in pat.finditer(cell_text): the entries appended, from position p on.
\* Every match that is not a generic label is appended, whatever its number.
RECURSIVE PlainTextScan(_, _)
PlainTextScan(t, p) ==
    LET starts == {s \in p..Len(t) : NameEndAt(t, s) > 0}
    IN  IF starts = {} THEN <<>>
        ELSE LET s == CHOOSE a \in starts : \A o \in starts : a <= o
                 e == NameEndAt(t, s)
                 n == SkipSpaces(t, SkipSpaces(t, e + 1) + 1)
                 last == n + DigitRun(t, n) - 1
                 name == Strip(SubSeq(t, s, e))
                 qty == ToInt(SubSeq(t, n, last))
             IN  (IF LowerText(name) \in GenericLabels THEN <<>>
                  ELSE <<Entry(name, qty)>>) \o PlainTextScan(t, last + 1)

----------------------------------------------------------------------------
(* scrape_recipe_from_page: the elements of a page *)

\* a node inside a cell: a text node or an <a> element, with its text
TextNode(t) == [a |-> FALSE, text |-> t]

Anchor(t) == [a |-> TRUE, text |-> t]

\* an <li>: its text and the text of its first <a>, empty if it has none
Li(t, a) == [text |-> t, a |-> a]

\* a <td>: its <li> items and, when it has none, its nodes
Cell(nodes) == [li |-> <<>>, nodes |-> nodes]

LiCell(items) == [li |-> items, nodes |-> <<>>]

\* a <tr>: whether it has <th> cells, their text, and its <td> cells
Row(th, th_text, cells) == [th |-> th, th_text |-> th_text, cells |-> cells]

\* element.get_text(" ", strip=True) of a node, str(node) of a text node
NodeText(n) == IF n.a THEN Strip(n.text) ELSE n.text

\* cell.get_text(sep, strip=True): the stripped non-empty texts, joined
RECURSIVE JoinTexts(_, _, _)
JoinTexts(nodes, k, sep) ==
    IF k > Len(nodes) THEN <<>>
    ELSE LET rest == JoinTexts(nodes, k + 1, sep)
             t == Strip(nodes[k].text)
         IN  IF t = <<>> THEN rest
             ELSE IF rest = <<>> THEN t
             ELSE t \o sep \o rest

CellText(cell) == JoinTexts(cell.nodes, 1, <<" ">>)

HasAnchors(cell) == \E k \in 1..Len(cell.nodes) : cell.nodes[k].a

\* link.get_text(strip=True) if link else item_cell.get_text(strip=True)
ItemName(cell) ==
    IF HasAnchors(cell)
    THEN Strip(cell.nodes[CHOOSE k \in 1..Len(cell.nodes) :
                   /\ cell.nodes[k].a
                   /\ \A j \in 1..(k - 1) : ~cell.nodes[j].a].text)
    ELSE JoinTexts(cell.nodes, 1, <<>>)

\* an <li> of the Build Cost list: the entries it appends
ParseListItem(li) ==
    LET p == _parse_quantity_and_name(li.text)
        name == IF p.name /= <<>> THEN p.name
                ELSE IF li.a /= <<>> THEN li.a
                ELSE Strip(RemoveNoise(li.text, 1))
        qty == IF p.qty > 0 THEN p.qty ELSE FirstInt(li.text)
    IN  IF name /= <<>> /\ qty > 0 THEN <<Entry(name, qty)>> ELSE <<>>

\* for li in items: of the Build Cost list
RECURSIVE ParseList(_)
ParseList(items) ==
    IF Len(items) = 0 THEN <<>>
    ELSE ParseListItem(items[1]) \o ParseList(Tail(items))

\* an <li> inside a table cell: the entries it appends
ParseCellItem(li) ==
    LET p == _parse_quantity_and_name(li.text)
    IN  IF p.name /= <<>> /\ p.qty > 0 THEN <<Entry(p.name, p.qty)>> ELSE <<>>

\* for li in li_items: of a table cell
RECURSIVE ParseCellItems(_)
ParseCellItems(items) ==
    IF Len(items) = 0 THEN <<>>
    ELSE ParseCellItem(items[1]) \o ParseCellItems(Tail(items))

\* for a in anchors: of a header+single-cell row, from node k on: the number
\* is looked for in the node that follows the anchor
RECURSIVE HeaderCellAnchors(_, _, _)
HeaderCellAnchors(nodes, k, seen) ==
    IF k > Len(nodes) THEN <<>>
    ELSE LET name == Strip(nodes[k].text)
             around == IF k < Len(nodes) THEN NodeText(nodes[k + 1]) ELSE <<>>
             qty == SearchXCount(around)
         IN  IF ~nodes[k].a \/ name = <<>> THEN HeaderCellAnchors(nodes, k + 1, seen)
             ELSE IF qty > 0 /\ name \notin seen
             THEN <<Entry(name, qty)>> \o HeaderCellAnchors(nodes, k + 1, seen \cup {name})
             ELSE HeaderCellAnchors(nodes, k + 1, seen)

\* for sib2 in a.next_siblings: the number of the first node after node k
\* that has one, None if no node has
QtyAfter(nodes, k) ==
    LET having == {j \in (k + 1)..Len(nodes) : SearchXCount(NodeText(nodes[j])) /= NoMatch}
    IN  IF having = {} THEN NoMatch
        ELSE SearchXCount(NodeText(nodes[CHOOSE j \in having : \A o \in having : j <= o]))

\* prev_text: the texts of the nodes before node k, in document order
RECURSIVE PrevText(_, _)
PrevText(nodes, k) ==
    IF k <= 1 THEN <<>>
    ELSE PrevText(nodes, k - 1)
            \o (IF nodes[k - 1].a THEN Strip(nodes[k - 1].text) \o <<" ">>
                ELSE nodes[k - 1].text)

\* for a in anchors: of a single-cell row, from node k on: the number is
\* looked for after the anchor, then before it
RECURSIVE SingleCellAnchors(_, _, _)
SingleCellAnchors(nodes, k, seen) ==
    IF k > Len(nodes) THEN <<>>
    ELSE LET name == Strip(nodes[k].text)
             after == QtyAfter(nodes, k)
             qty == IF after /= NoMatch THEN after
                    ELSE SearchCountX(PrevText(nodes, k))
         IN  IF ~nodes[k].a \/ name = <<>> \/ name \in seen
             THEN SingleCellAnchors(nodes, k + 1, seen)
             ELSE IF qty > 0
             THEN <<Entry(name, qty)>> \o SingleCellAnchors(nodes, k + 1, seen \cup {name})
             ELSE SingleCellAnchors(nodes, k + 1, seen)

\* the body of `for row in rows:` of the Build Cost table: the entries the
\* row appends to recipe
ParseBuildCostRow(row, so_far) ==
    IF row.th /\ Len(row.cells) = 1
    THEN LET cell == row.cells[1]
         IN  IF cell.li /= <<>> THEN ParseCellItems(cell.li)
             ELSE HeaderCellAnchors(cell.nodes, 1, {})
                     \o (IF ~HasAnchors(cell) THEN PlainTextScan(CellText(cell), 1)
                         ELSE <<>>)
    ELSE IF row.th THEN <<>>
    ELSE IF Len(row.cells) >= 2
    THEN LET item_name == ItemName(row.cells[1])
             qty == FirstInt(JoinTexts(row.cells[2].nodes, 1, <<>>))
         IN  IF item_name /= <<>> /\ qty > 0 THEN <<Entry(item_name, qty)>> ELSE <<>>
    ELSE IF Len(row.cells) = 1
    THEN LET cell == row.cells[1]
             found == SingleCellAnchors(cell.nodes, 1, {})
         IN  IF cell.li /= <<>> THEN ParseCellItems(cell.li)
             ELSE found \o (IF so_far \o found = <<>>
                            THEN PlainTextScan(CellText(cell), 1)
                            ELSE <<>>)
    ELSE <<>>

Ingredient == <<"I", "n", "g", "r", "e", "d", "i", "e", "n", "t">>

\* the body of `for row in rows:` of the legacy Recipe table: the entries the
\* row appends to recipe
ParseLegacyRow(row) ==
    IF row.th /\ Contains(row.th_text, Ingredient) THEN <<>>
    ELSE IF Len(row.cells) >= 2
    THEN LET item_name == ItemName(row.cells[1])
             qty == FirstInt(JoinTexts(row.cells[2].nodes, 1, <<>>))
         IN  IF item_name /= <<>> /\ qty /= NoMatch
             THEN <<Entry(item_name, qty)>> ELSE <<>>
    ELSE <<>>

----------------------------------------------------------------------------
(* scrape_recipe_from_page: the pages scraped, and the function step by step *)

\* the lists a Build Cost section can hold
GoodList ==
    << Li(<<"4", "x", " ">> \o Plank, <<>>),
       Li(Box \o <<" ", "(", "2", ")">>, Box) >>

LooseList == << Li(Plank \o <<" ", "5">>, <<>>) >>

BarrenList == << Li(<<"0", "x", " ">> \o Box, <<>>), Li(Plank, Plank) >>

Lists == {GoodList, LooseList, BarrenList, <<>>}

\* the siblings that follow the Build Cost heading: paragraphs, lists, tables
Paragraph == [tag |-> "p", items |-> <<>>]

Table == [tag |-> "table", items |-> <<>>]

Siblings ==
    {Paragraph, Table}
        \cup {[tag |-> "ul", items |-> l] : l \in Lists}
        \cup {[tag |-> "ol", items |-> GoodList]}

IsList(el) == el.tag \in {"ul", "ol"}

\* the cells a single-cell row can hold
SingleCells ==
    { LiCell(<< Li(<<"4", "x", " ">> \o Plank, <<>>) >>),
      LiCell(<< Li(<<"0", "x", " ">> \o Box, <<>>) >>),
      Cell(<< Anchor(Plank), TextNode(<<" ", "x", "3">>) >>),
      Cell(<< Anchor(Plank), TextNode(<<" ", "x", "3", " ">>),
              Anchor(Plank), TextNode(<<" ", "x", "2">>) >>),
      Cell(<< Anchor(Box), TextNode(<<" ", "x", "0">>) >>),
      Cell(<< TextNode(<<"2", "x", " ">>), Anchor(Plank) >>),
      Cell(<< TextNode(Plank \o <<" ", "x", "3">>) >>),
      Cell(<< TextNode(Box \o <<" ", "x", "0">>) >>),
      Cell(<< TextNode(<<"M", "a", "t", "e", "r", "i", "a", "l", "s", " ", "x", "1", " ">>
                          \o Box \o <<" ", "x", "2">>) >>),
      Cell(<<>>) }

\* the name and quantity cells a two-cell row can hold
NameCells == { Cell(<<Anchor(Plank)>>), Cell(<<TextNode(Box)>>), Cell(<<>>) }

QuantityCells ==
    { Cell(<<TextNode(<<"3">>)>>), Cell(<<TextNode(<<"0">>)>>),
      Cell(<<TextNode(<<"-">>)>>) }

Components == <<"C", "o", "m", "p", "o", "n", "e", "n", "t", "s">>

\* the rows a Build Cost table can hold
BuildCostRows ==
    {Row(TRUE, Components, <<c>>) : c \in SingleCells}
        \cup {Row(FALSE, <<>>, <<c>>) : c \in SingleCells}
        \cup {Row(FALSE, <<>>, <<n, q>>) : n \in NameCells, q \in QuantityCells}
        \cup {Row(TRUE, Components, <<>>),
              Row(TRUE, Components, <<Cell(<<Anchor(Plank)>>), Cell(<<TextNode(<<"3">>)>>)>>),
              Row(FALSE, <<>>, <<>>)}

\* the rows a legacy Recipe table can hold
LegacyRows ==
    {Row(FALSE, <<>>, <<n, q>>) : n \in NameCells, q \in QuantityCells}
        \cup {Row(TRUE, Ingredient, <<>>),
              Row(TRUE, Ingredient, <<Cell(<<TextNode(Plank)>>), Cell(<<TextNode(<<"3">>)>>)>>),
              Row(TRUE, Components, <<Cell(<<TextNode(Plank)>>), Cell(<<TextNode(<<"3">>)>>)>>),
              Row(FALSE, <<>>, <<Cell(<<TextNode(Plank)>>)>>)}

\* soup.find('span', id='Recipe'): there is none ("absent"), it is not inside
\* an h2/h3 ("orphan"), no table follows its heading ("no_table"), or a table
\* follows its heading ("table")
RecipeSpans == {"absent", "orphan", "no_table", "table"}

RecipeInit ==
    /\ build_cost_heading \in BOOLEAN
    /\ section \in (IF build_cost_heading THEN SeqsUpTo(Siblings, MaxSiblings) ELSE {<<>>})
    /\ recipe_heading_span \in RecipeSpans
    /\ recipe = <<>>
    /\ parsed_via = None
    /\ sib = 1
    /\ table_rows = 0
    /\ tried = <<>>
    /\ yielded = {}
    /\ r_pc = "heading"

RecipeIdle ==
    /\ build_cost_heading = FALSE
    /\ section = <<>>
    /\ recipe_heading_span = "absent"
    /\ recipe = <<>>
    /\ parsed_via = None
    /\ sib = 1
    /\ table_rows = 0
    /\ tried = <<>>
    /\ yielded = {}
    /\ r_pc = "idle"

\* if build_cost_heading is not None:
FindBuildCost ==
    /\ r_pc = "heading"
    /\ r_pc' = IF build_cost_heading THEN "siblings" ELSE "legacy"
    /\ UNCHANGED <<build_cost_heading, section, recipe_heading_span, recipe,
                   parsed_via, sib, table_rows, tried, yielded>>

\* one pass of `for sib in _iter_following_until_next_heading(...)`: a list is
\* parsed whole and ends the loop, a table starts the loop over its rows
NextSibling ==
    /\ r_pc = "siblings"
    /\ IF sib > Len(section)
       THEN /\ r_pc' = "legacy"
            /\ UNCHANGED <<recipe, parsed_via, sib, tried, yielded>>
       ELSE IF IsList(section[sib])
       THEN /\ parsed_via' = "list"
            /\ recipe' = recipe \o ParseList(section[sib].items)
            /\ tried' = Append(tried, "list")
            /\ yielded' = IF ParseList(section[sib].items) /= <<>>
                          THEN yielded \cup {"list"} ELSE yielded
            /\ r_pc' = "legacy"
            /\ UNCHANGED sib
       ELSE IF section[sib].tag = "table"
       THEN /\ parsed_via' = "table"
            /\ tried' = Append(tried, "table")
            /\ r_pc' = "table"
            /\ UNCHANGED <<recipe, sib, yielded>>
       ELSE /\ sib' = sib + 1
            /\ UNCHANGED <<recipe, parsed_via, tried, yielded, r_pc>>
    /\ UNCHANGED <<build_cost_heading, section, recipe_heading_span, table_rows>>

\* one pass of `for row in rows:` of the Build Cost table
BuildCostRow ==
    /\ r_pc = "table"
    /\ table_rows < MaxTableRows
    /\ \E row \in BuildCostRows :
          /\ recipe' = recipe \o ParseBuildCostRow(row, recipe)
          /\ yielded' = IF ParseBuildCostRow(row, recipe) /= <<>>
                        THEN yielded \cup {"table"} ELSE yielded
    /\ table_rows' = table_rows + 1
    /\ UNCHANGED <<build_cost_heading, section, recipe_heading_span,
                   parsed_via, sib, tried, r_pc>>

\* the rows of the Build Cost table are exhausted: break
BuildCostTableEnd ==
    /\ r_pc = "table"
    /\ r_pc' = "legacy"
    /\ table_rows' = 0
    /\ UNCHANGED <<build_cost_heading, section, recipe_heading_span, recipe,
                   parsed_via, sib, tried, yielded>>

\* if not recipe: look for the legacy Recipe table. A span that is not
\* inside an h2/h3 makes find_parent return None, and the call on None raises
\* AttributeError, which the except clause of the function does not catch.
LegacyLookup ==
    /\ r_pc = "legacy"
    /\ CASE recipe /= <<>> \/ recipe_heading_span = "absent" ->
                /\ r_pc' = "returned"
                /\ UNCHANGED <<parsed_via, tried>>
         [] recipe = <<>> /\ recipe_heading_span = "orphan" ->
                /\ r_pc' = "raised"
                /\ parsed_via' = IF parsed_via /= None THEN parsed_via
                                 ELSE "legacy-recipe-table"
                /\ UNCHANGED tried
         [] recipe = <<>> /\ recipe_heading_span = "no_table" ->
                /\ r_pc' = "returned"
                /\ parsed_via' = IF parsed_via /= None THEN parsed_via
                                 ELSE "legacy-recipe-table"
                /\ UNCHANGED tried
         [] recipe = <<>> /\ recipe_heading_span = "table" ->
                /\ r_pc' = "legacy_table"
                /\ parsed_via' = IF parsed_via /= None THEN parsed_via
                                 ELSE "legacy-recipe-table"
                /\ tried' = Append(tried, "legacy")
    /\ UNCHANGED <<build_cost_heading, section, recipe_heading_span, recipe,
                   sib, table_rows, yielded>>

\* one pass of `for row in rows:` of the legacy Recipe table
LegacyRow ==
    /\ r_pc = "legacy_table"
    /\ table_rows < MaxTableRows
    /\ \E row \in LegacyRows :
          /\ recipe' = recipe \o ParseLegacyRow(row)
          /\ yielded' = IF ParseLegacyRow(row) /= <<>>
                        THEN yielded \cup {"legacy"} ELSE yielded
    /\ table_rows' = table_rows + 1
    /\ UNCHANGED <<build_cost_heading, section, recipe_heading_span,
                   parsed_via, sib, tried, r_pc>>

\* the rows of the legacy table are exhausted: the function returns recipe
LegacyTableEnd ==
    /\ r_pc = "legacy_table"
    /\ r_pc' = "returned"
    /\ UNCHANGED <<build_cost_heading, section, recipe_heading_span, recipe,
                   parsed_via, sib, table_rows, tried, yielded>>

----------------------------------------------------------------------------
(* _parse_hours and the table scans of parse_consumables_from_page. A       *)
(* duration is held in sixtieths of an hour, so that 30 minutes, 0.5 hour   *)
(* in the code, is the integer 30; the texts of the model hold whole        *)
(* numbers only.                                                            *)

\* float(m.group(1)) / 60.0
MinutesPerHour == 60

\* the 1.0 of `_parse_hours(...) or 1.0`
DefaultHours == 1 * MinutesPerHour

MinuteUnits == { <<"m">>, <<"m", "i", "n">>, <<"m", "i", "n", "s">>, <<"m", "i", "n", "u", "t", "e">>, <<"m", "i", "n", "u", "t", "e", "s">> }

HourUnits == { <<"h">>, <<"h", "r">>, <<"h", "r", "s">>, <<"h", "o", "u", "r">>, <<"h", "o", "u", "r", "s">> }

\* (?:u1|u2|...)\b at position k
UnitAt(t, k, units) ==
    \E w \in units :
        /\ k + Len(w) - 1 <= Len(t)
        /\ SubSeq(t, k, k + Len(w) - 1) = w
        /\ (k + Len(w) > Len(t) \/ ~IsWordChar(t[k + Len(w)]))

\* re.search(r"(\d+)\s*(?:units)\b", t): the number, None if no match
SearchDuration(t, units) ==
    LET starts == {s \in 1..Len(t) :
                       /\ IsDigit(t[s])
                       /\ UnitAt(t, SkipSpaces(t, s + DigitRun(t, s)), units)}
    IN  IF starts = {} THEN NoMatch
        ELSE LET s == CHOOSE a \in starts : \A o \in starts : a <= o
             IN  ToInt(SubSeq(t, s, s + DigitRun(t, s) - 1))

\* re.search(r"x\s*(\d+)\s*h\b", t): the number, None if no match
SearchXHours(t) ==
    LET starts == {p \in 1..Len(t) :
                       /\ t[p] = "x"
                       /\ DigitRun(t, SkipSpaces(t, p + 1)) >= 1
                       /\ UnitAt(t, SkipSpaces(t, SkipSpaces(t, p + 1)
                                     + DigitRun(t, SkipSpaces(t, p + 1))), {<<"h">>})}
    IN  IF starts = {} THEN NoMatch
        ELSE LET p == CHOOSE a \in starts : \A o \in starts : a <= o
                 n == SkipSpaces(t, p + 1)
             IN  ToInt(SubSeq(t, n, n + DigitRun(t, n) - 1))

\* re.search(r"(\d+)h\b", t): the number, None if no match
SearchCompactHours(t) ==
    LET starts == {s \in 1..Len(t) :
                       IsDigit(t[s]) /\ UnitAt(t, s + DigitRun(t, s), {<<"h">>})}
    IN  IF starts = {} THEN NoMatch
        ELSE LET s == CHOOSE a \in starts : \A o \in starts : a <= o
             IN  ToInt(SubSeq(t, s, s + DigitRun(t, s) - 1))

\* the duration of a text in sixtieths of an hour, None if it has none:
\* minutes first, then hours, then the compact forms
_parse_hours(text) ==
    LET t == LowerText(Strip(text))
    IN  IF text = <<>> THEN NoMatch
        ELSE IF SearchDuration(t, MinuteUnits) /= NoMatch
        THEN SearchDuration(t, MinuteUnits)
        ELSE IF SearchDuration(t, HourUnits) /= NoMatch
        THEN SearchDuration(t, HourUnits) * MinutesPerHour
        ELSE IF SearchXHours(t) /= NoMatch THEN SearchXHours(t) * MinutesPerHour
        ELSE IF SearchCompactHours(t) /= NoMatch
        THEN SearchCompactHours(t) * MinutesPerHour
        ELSE NoMatch

\* a variant of HoursOr that replaces a missing duration only
HoursOr_missing(h) == IF h = NoMatch THEN DefaultHours ELSE h

\* `_parse_hours(...) or 1.0`: None and 0.0 are falsy
HoursOr(h) == IF h = NoMatch \/ h = 0 THEN DefaultHours ELSE h

\* a name found with the text in which its duration is looked for
Candidate(name, text) == [Name |-> name, Text |-> text]

\* results.append({"Name": nm, "Hours": float(hrs)}) for every name found
Appended(found) ==
    [k \in 1..Len(found) |->
        [Name |-> found[k].Name, Hours |-> HoursOr(_parse_hours(found[k].Text))]]

DurationTextsOf(found) == [k \in 1..Len(found) |-> found[k].Text]

ConsumableKeys ==
    { <<"c", "o", "n", "s", "u", "m", "a", "b", "l", "e">>, <<"c", "o", "n", "s", "u", "m", "a", "b", "l", "e", "s">>, <<"f", "u", "e", "l">>, <<"l", "u", "b", "r", "i", "c", "a", "n", "t">>, <<"u", "p", "k", "e", "e", "p">>,
      <<"m", "a", "i", "n", "t", "e", "n", "a", "n", "c", "e">> }

NameHeaderKeys == { <<"c", "o", "n", "s", "u", "m", "a", "b", "l", "e">>, <<"f", "u", "e", "l">>, <<"l", "u", "b", "r", "i", "c", "a", "n", "t">> }

TimeHeaderKeys == { <<"b", "u", "r", "n">>, <<"t", "i", "m", "e">>, <<"d", "u", "r", "a", "t", "i", "o", "n">> }

\* any(k in label for k in keys)
HasKey(label, keys) == \E k \in keys : Contains(label, k)

\* headers: the texts of the <th> cells of the table, lowered
looks_like_consumable_table(headers) ==
    /\ \E k \in 1..Len(headers) : HasKey(LowerText(headers[k]), NameHeaderKeys)
    /\ \E k \in 1..Len(headers) : HasKey(LowerText(headers[k]), TimeHeaderKeys)

\* an <a> with a title and an href besides its text
TitledAnchor(t, title, href) == [a |-> TRUE, text |-> t, title |-> title, href |-> href]

StartsWith(t, prefix) ==
    Len(prefix) <= Len(t) /\ SubSeq(t, 1, Len(prefix)) = prefix

\* a.get_text(' ', strip=True) or a.get('title') or ''
AnchorName(n) ==
    IF Strip(n.text) /= <<>> THEN Strip(n.text) ELSE Get(n, "title", <<>>)

\* for a in anchors: of a value cell, from node k on; every name is taken
\* once and gets the duration of the text of the whole cell
RECURSIVE ValueAnchors(_, _, _, _)
ValueAnchors(nodes, k, seen, ctx) ==
    IF k > Len(nodes) THEN <<>>
    ELSE IF ~nodes[k].a \/ AnchorName(nodes[k]) = <<>> \/ AnchorName(nodes[k]) \in seen
    THEN ValueAnchors(nodes, k + 1, seen, ctx)
    ELSE <<Candidate(AnchorName(nodes[k]), ctx)>>
            \o ValueAnchors(nodes, k + 1, seen \cup {AnchorName(nodes[k])}, ctx)

\* candidate_names of a name cell, from node k on: the texts or titles of the
\* anchors that are not image or file anchors
RECURSIVE CandidateNames(_, _)
CandidateNames(nodes, k) ==
    IF k > Len(nodes) THEN <<>>
    ELSE LET n == nodes[k]
             skip == \/ ~n.a
                     \/ StartsWith(Strip(Get(n, "href", <<>>)), <<"/", "F", "i", "l", "e", ":">>)
                     \/ StartsWith(Strip(Get(n, "title", <<>>)), <<"F", "i", "l", "e", ":">>)
             name == IF Strip(n.text) /= <<>> THEN Strip(n.text)
                     ELSE Strip(Get(n, "title", <<>>))
         IN  (IF skip \/ name = <<>> THEN <<>> ELSE <<name>>)
                 \o CandidateNames(nodes, k + 1)

\* max(candidate_names, key=len): the first of the longest names
Longest(names) ==
    names[CHOOSE k \in 1..Len(names) :
              /\ \A o \in 1..Len(names) : Len(names[o]) <= Len(names[k])
              /\ \A o \in 1..(k - 1) : Len(names[o]) < Len(names[k])]

\* the body of `for row in tbl.find_all('tr'):`: the candidates that a row of
\* a table with these headers appends to results
ScanTableRow(headers, row) ==
    IF row.th /\ Len(row.cells) >= 1
    THEN LET label == LowerText(Strip(row.th_text))
             value_el == row.cells[Len(row.cells)]
             text == CellText(value_el)
         IN  IF ~HasKey(label, ConsumableKeys) THEN <<>>
             ELSE IF HasAnchors(value_el)
             THEN ValueAnchors(value_el.nodes, 1, {}, text)
             ELSE IF text /= <<>> THEN <<Candidate(text, text)>>
             ELSE <<>>
    ELSE IF looks_like_consumable_table(headers) /\ Len(row.cells) >= 2
    THEN LET name_cell == row.cells[1]
             time_cell == row.cells[2]
             candidate_names == CandidateNames(name_cell.nodes, 1)
             nm == IF candidate_names /= <<>> THEN Longest(candidate_names)
                   ELSE CellText(name_cell)
         IN  IF nm /= <<>> THEN <<Candidate(nm, CellText(time_cell))>> ELSE <<>>
    ELSE <<>>

\* re.split(r",|;|\n", text), every part stripped, the empty parts dropped
RECURSIVE SplitParts(_, _)
SplitParts(t, part) ==
    IF Len(t) = 0 THEN (IF Strip(part) = <<>> THEN <<>> ELSE <<Strip(part)>>)
    ELSE IF t[1] \in {",", ";"}
    THEN (IF Strip(part) = <<>> THEN <<>> ELSE <<Strip(part)>>) \o SplitParts(Tail(t), <<>>)
    ELSE SplitParts(Tail(t), Append(part, t[1]))

\* re.match(r"(.+?)\s*(?:x\s*)?(.*)$", p): the name is the shortest text that
\* matches, one character, and the duration is looked for in what follows it
ParsePart(p) ==
    LET after == SkipSpaces(p, 2)
        rest == IF after <= Len(p) /\ p[after] = "x"
                THEN SkipSpaces(p, after + 1) ELSE after
    IN  Candidate(<<p[1]>>, SubSeq(p, rest, Len(p)))

RECURSIVE ParseParts(_)
ParseParts(parts) ==
    IF Len(parts) = 0 THEN <<>>
    ELSE <<ParsePart(parts[1])>> \o ParseParts(Tail(parts))

\* the body of `for row in soup.find_all('tr'):` of the fallback: the
\* candidates the row appends to results
ScanFallbackRow(row) ==
    LET has_label == row.th \/ Len(row.cells) >= 2
        has_value == Len(row.cells) >= 2 \/ (Len(row.cells) = 1 /\ row.th)
        label == LowerText(IF row.th THEN Strip(row.th_text) ELSE CellText(row.cells[1]))
        value_el == IF Len(row.cells) >= 2 THEN row.cells[2] ELSE row.cells[1]
    IN  IF ~has_label \/ ~has_value THEN <<>>
        ELSE IF ~HasKey(label, ConsumableKeys) THEN <<>>
        ELSE IF HasAnchors(value_el)
        THEN ValueAnchors(value_el.nodes, 1, {}, CellText(value_el))
        ELSE ParseParts(SplitParts(CellText(value_el), <<>>))

----------------------------------------------------------------------------
(* parse_consumables_from_page: the pages scanned, and the function step by step *)

FuelCell == <<"F", "u", "e", "l", " ", "C", "e", "l", "l">>

Lubricant == <<"L", "u", "b", "r", "i", "c", "a", "n", "t">>

ConsumableHeaders == << <<"C", "o", "n", "s", "u", "m", "a", "b", "l", "e">>, <<"B", "u", "r", "n", " ", "T", "i", "m", "e">> >>

PlainHeaders == << <<"I", "t", "e", "m">>, <<"A", "m", "o", "u", "n", "t">> >>

\* a <tr> of the page with the <th> texts of the table it stands in
PageRow(headers, row) == [headers |-> headers, row |-> row]

\* the rows a page can hold
ConsumableRows ==
    { PageRow(<< <<"F", "u", "e", "l">> >>,
              Row(TRUE, <<"F", "u", "e", "l">>,
                  << Cell(<< Anchor(FuelCell), TextNode(<<" ", "2", "h">>) >>) >>)),
      PageRow(<< <<"C", "o", "n", "s", "u", "m", "a", "b", "l", "e", "s">> >>,
              Row(TRUE, <<"C", "o", "n", "s", "u", "m", "a", "b", "l", "e", "s">>,
                  << Cell(<< Anchor(FuelCell), TextNode(<<",", " ">>), Anchor(FuelCell),
                             TextNode(<<",", " ">>), Anchor(Lubricant) >>) >>)),
      PageRow(<< <<"L", "u", "b", "r", "i", "c", "a", "n", "t">> >>,
              Row(TRUE, <<"L", "u", "b", "r", "i", "c", "a", "n", "t">>,
                  << Cell(<< TextNode(<<"L", "u", "b", "r", "i", "c", "a", "n", "t", " ", "3", "0", "m">>) >>) >>)),
      PageRow(<< <<"U", "p", "k", "e", "e", "p">> >>,
              Row(TRUE, <<"U", "p", "k", "e", "e", "p">>,
                  << Cell(<< Anchor(FuelCell), TextNode(<<" ", "0", "h">>) >>) >>)),
      PageRow(<< <<"F", "u", "e", "l">> >>, Row(TRUE, <<"F", "u", "e", "l">>, << Cell(<<>>) >>)),
      PageRow(<< <<"P", "o", "w", "e", "r">> >>,
              Row(TRUE, <<"P", "o", "w", "e", "r">>, << Cell(<< TextNode(<<"5">>) >>) >>)),
      PageRow(ConsumableHeaders,
              Row(FALSE, <<>>,
                  << Cell(<< TitledAnchor(<<>>, <<"F", "i", "l", "e", ":", "F", "u", "e", "l", ".", "p", "n", "g">>, <<"/", "F", "i", "l", "e", ":", "F", "u", "e", "l", ".", "p", "n", "g">>),
                             Anchor(FuelCell) >>),
                     Cell(<< TextNode(<<"9", "0", " ", "m", "i", "n", "u", "t", "e", "s">>) >>) >>)),
      PageRow(ConsumableHeaders,
              Row(FALSE, <<>>,
                  << Cell(<< TextNode(FuelCell) >>),
                     Cell(<< TextNode(<<"1", " ", "h", "o", "u", "r">>) >>) >>)),
      PageRow(ConsumableHeaders,
              Row(FALSE, <<>>,
                  << Cell(<< TitledAnchor(<<>>, Lubricant, <<"/", "L", "u", "b", "r", "i", "c", "a", "n", "t">>) >>),
                     Cell(<<>>) >>)),
      PageRow(PlainHeaders,
              Row(FALSE, <<>>,
                  << Cell(<< TextNode(<<"F", "u", "e", "l">>) >>),
                     Cell(<< TextNode(<<"F", "u", "e", "l", " ", "C", "e", "l", "l", " ", "x", "2", "h", ",", " ", "L", "u", "b", "r", "i", "c", "a", "n", "t">>) >>) >>)),
      PageRow(PlainHeaders,
              Row(FALSE, <<>>,
                  << Cell(<< TextNode(<<"M", "a", "i", "n", "t", "e", "n", "a", "n", "c", "e">>) >>),
                     Cell(<< Anchor(Lubricant), TextNode(<<" ", "4", "5", "m">>) >>) >>)) }

ConsumablesInit ==
    /\ page_rows \in SeqsUpTo(ConsumableRows, MaxPageRows)
    /\ c_results = <<>>
    /\ c_texts = <<>>
    /\ c_i = 1
    /\ c_pc = "tables"
    /\ consumables = <<>>

ConsumablesIdle ==
    /\ page_rows = <<>>
    /\ c_results = <<>>
    /\ c_texts = <<>>
    /\ c_i = 1
    /\ c_pc = "idle"
    /\ consumables = <<>>

\* one pass of `for row in tbl.find_all('tr'):`
ConsumableTableRow ==
    /\ c_pc = "tables"
    /\ c_i <= Len(page_rows)
    /\ c_results' =
           c_results \o Appended(ScanTableRow(page_rows[c_i].headers, page_rows[c_i].row))
    /\ c_texts' =
           c_texts \o DurationTextsOf(ScanTableRow(page_rows[c_i].headers, page_rows[c_i].row))
    /\ c_i' = c_i + 1
    /\ UNCHANGED <<page_rows, c_pc, consumables>>

\* if not results: the rows of the page are scanned again for labels
ConsumableFallback ==
    /\ c_pc = "tables"
    /\ c_i > Len(page_rows)
    /\ c_pc' = IF c_results = <<>> THEN "fallback" ELSE "dedup"
    /\ c_i' = 1
    /\ UNCHANGED <<page_rows, c_results, c_texts, consumables>>

\* one pass of `for row in soup.find_all('tr'):`
ConsumableFallbackRow ==
    /\ c_pc = "fallback"
    /\ c_i <= Len(page_rows)
    /\ c_results' = c_results \o Appended(ScanFallbackRow(page_rows[c_i].row))
    /\ c_texts' = c_texts \o DurationTextsOf(ScanFallbackRow(page_rows[c_i].row))
    /\ c_i' = c_i + 1
    /\ UNCHANGED <<page_rows, c_pc, consumables>>

\* the de-duplication by name and the return
ConsumableReturn ==
    /\ c_pc = "dedup" \/ (c_pc = "fallback" /\ c_i > Len(page_rows))
    /\ consumables' = parse_consumables_from_page(c_results)
    /\ c_pc' = "returned"
    /\ UNCHANGED <<page_rows, c_results, c_texts, c_i>>

----------------------------------------------------------------------------
(* Specifications *)

PowerIdle ==
    /\ page_title = <<>>
    /\ provides = 0
    /\ consumes = 0
    /\ ambiguous_vals = <<>>
    /\ rows_done = 0
    /\ power_pc = "idle"
    /\ power_result = NoResult
    /\ match_prov = NoMatch
    /\ match_cons = NoMatch
    /\ scanned = PowerStart

MainIdle ==
    /\ update = FALSE
    /\ file = NoFile
    /\ prior = NoFile
    /\ item_links = <<>>
    /\ i = 1
    /\ responses = <<>>
    /\ all_item_data = <<>>
    /\ existing_names = {}
    /\ minimal_consumables = <<>>
    /\ pc = "idle"
    /\ trace = <<>>
    /\ runs = 0

\* a run of main()
Init == MainInit /\ PowerIdle /\ QuantityIdle /\ RecipeIdle /\ ConsumablesIdle

Next ==
    \/ GetPlaceableLinks /\ UNCHANGED <<powerVars, quantityVars, recipeVars, consumableVars>>
    \/ ScrapeLink /\ UNCHANGED <<powerVars, quantityVars, recipeVars, consumableVars>>
    \/ LoadSnapshot /\ UNCHANGED <<powerVars, quantityVars, recipeVars, consumableVars>>
    \/ MergeManual /\ UNCHANGED <<powerVars, quantityVars, recipeVars, consumableVars>>
    \/ ClosurePass /\ UNCHANGED <<powerVars, quantityVars, recipeVars, consumableVars>>
    \/ Save /\ UNCHANGED <<powerVars, quantityVars, recipeVars, consumableVars>>

Spec == Init /\ [][Next]_vars

\* a run of main() followed by offline runs
RerunNext ==
    \/ Next
    \/ Rerun /\ UNCHANGED <<powerVars, quantityVars, recipeVars, consumableVars>>

RerunSpec == Init /\ [][RerunNext]_vars

\* a call of parse_power_from_page
PowerSpecInit == PowerInit /\ MainIdle /\ QuantityIdle /\ RecipeIdle /\ ConsumablesIdle

PowerNext ==
    \/ PowerScanRow /\ UNCHANGED <<mainVars, quantityVars, recipeVars, consumableVars>>
    \/ PowerTextFallback /\ UNCHANGED <<mainVars, quantityVars, recipeVars, consumableVars>>
    \/ PowerResolve /\ UNCHANGED <<mainVars, quantityVars, recipeVars, consumableVars>>
    \/ PowerReturn /\ UNCHANGED <<mainVars, quantityVars, recipeVars, consumableVars>>

PowerSpec == PowerSpecInit /\ [][PowerNext]_vars

\* a call of _parse_quantity_and_name
QuantitySpecInit == QuantityInit /\ MainIdle /\ PowerIdle /\ RecipeIdle /\ ConsumablesIdle

QuantityNext == ParseQuantity /\ UNCHANGED <<mainVars, powerVars, recipeVars, consumableVars>>

QuantitySpec == QuantitySpecInit /\ [][QuantityNext]_vars

\* the recipe extraction of scrape_recipe_from_page, step by step
RecipeSpecInit == RecipeInit /\ MainIdle /\ PowerIdle /\ QuantityIdle /\ ConsumablesIdle

RecipeNext ==
    \/ FindBuildCost /\ UNCHANGED <<mainVars, powerVars, quantityVars, consumableVars>>
    \/ NextSibling /\ UNCHANGED <<mainVars, powerVars, quantityVars, consumableVars>>
    \/ BuildCostRow /\ UNCHANGED <<mainVars, powerVars, quantityVars, consumableVars>>
    \/ BuildCostTableEnd /\ UNCHANGED <<mainVars, powerVars, quantityVars, consumableVars>>
    \/ LegacyLookup /\ UNCHANGED <<mainVars, powerVars, quantityVars, consumableVars>>
    \/ LegacyRow /\ UNCHANGED <<mainVars, powerVars, quantityVars, consumableVars>>
    \/ LegacyTableEnd /\ UNCHANGED <<mainVars, powerVars, quantityVars, consumableVars>>

RecipeSpec == RecipeSpecInit /\ [][RecipeNext]_vars

\* parse_consumables_from_page, step by step
ConsumablesSpecInit ==
    ConsumablesInit /\ MainIdle /\ PowerIdle /\ QuantityIdle /\ RecipeIdle

ConsumablesNext ==
    \/ ConsumableTableRow /\ UNCHANGED <<mainVars, powerVars, quantityVars, recipeVars>>
    \/ ConsumableFallback /\ UNCHANGED <<mainVars, powerVars, quantityVars, recipeVars>>
    \/ ConsumableFallbackRow /\ UNCHANGED <<mainVars, powerVars, quantityVars, recipeVars>>
    \/ ConsumableReturn /\ UNCHANGED <<mainVars, powerVars, quantityVars, recipeVars>>

ConsumablesSpec == ConsumablesSpecInit /\ [][ConsumablesNext]_vars

----------------------------------------------------------------------------
(* Vocabulary of the properties *)

NameOf(r) == Get(r, "Name", None)

ConsumablesOf(r) == Get(r, "Consumables", <<>>)

Positions(items, name) == {n \in 1..Len(items) : NameOf(items[n]) = name}

NoDuplicateNames(items) ==
    \A a, b \in 1..Len(items) : NameOf(items[a]) = NameOf(items[b]) => a = b

\* the names found in the Consumables lists of the records
ReferencedNames(items) ==
    UNION { {NameOf(c) : c \in Range(ConsumablesOf(items[n]))} : n \in 1..Len(items) }

\* how many Consumables entries of the records carry the name
References(items, name) ==
    { <<n, k>> \in (1..Len(items)) \X (1..3) :
        k <= Len(ConsumablesOf(items[n])) /\ NameOf(ConsumablesOf(items[n])[k]) = name }

EventsOf(op) == {n \in 1..Len(trace) : trace[n].op = op}

\* the records the loop of the update mode builds from the links and the
\* responses received so far
RECURSIVE Scraped(_, _)
Scraped(links, resps) ==
    IF Len(resps) = 0 THEN <<>>
    ELSE LET n == Len(resps)
             before == Scraped(links, SubSeq(resps, 1, n - 1))
         IN  IF resps[n] = RequestException THEN before
             ELSE Append(before, ItemData(links[n], scrape_recipe_from_page(resps[n])))

PriorRecords == {r \in Range(prior.items) : IsDict(r)}

----------------------------------------------------------------------------
(* C1 *)

\* C1: after a completed run the record list written to the output file has
\* at most one record per Name.
C1_UniqueNames == pc = "done" => NoDuplicateNames(file.items)

\* a completed run whose input had two records of the same name: two links of
\* the same name both scraped, or a snapshot with a repeated name
C1_Witness ==
    /\ pc = "done"
    /\ \/ update /\ ~NoDuplicateNames(Scraped(item_links, responses))
       \/ ~update /\ prior.kind = "json" /\ ~NoDuplicateNames(prior.items)

----------------------------------------------------------------------------
(* C2 *)

\* C2: after merge_manual_items the list holds, for every manual override,
\* exactly one record of that Name, and it is the manual definition.
C2_ManualPrecedence ==
    pc = "closure" =>
        \A m \in Range(manual) :
            /\ Cardinality(Positions(all_item_data, m.Name)) = 1
            /\ \A n \in Positions(all_item_data, m.Name) : all_item_data[n] = m

\* the merge has run on a snapshot that held a Pentashield record with
\* another recipe
C2_Witness ==
    /\ pc = "closure"
    /\ ~update
    /\ \E r \in Range(file.items) :
        NameOf(r) = "Pentashield" /\ r.Recipe /= manual[1].Recipe

----------------------------------------------------------------------------
(* C3 *)

\* C3, as stated: in the record list written by a completed run, every name
\* inside a Consumables list is the Name of a top-level record.
C3_ClosureEveryName ==
    pc = "done" => ReferencedNames(file.items) \subseteq Names(file.items)

\* C3, amended: in the record list written by a completed run, every
\* non-empty name inside a Consumables list is the Name of a top-level record.
C3_Closure ==
    pc = "done" =>
        {c \in ReferencedNames(file.items) : Truthy(c)} \subseteq Names(file.items)

\* a completed run whose closure pass had a placeholder to add
C3_Witness ==
    /\ pc = "done"
    /\ Len(minimal_consumables) > 0
    /\ \E r \in Range(file.items) : Len(ConsumablesOf(r)) > 0

----------------------------------------------------------------------------
(* C4 *)

\* what C4 says of one closure pass, from the merged list to the extended
\* list, for the set of names that count as referenced
PlaceholdersAdded(merged, final, referenced) ==
    LET missing == referenced \ Names(merged)
    IN  /\ Len(final) >= Len(merged)
        /\ SubSeq(final, 1, Len(merged)) = merged
        /\ \A n \in (Len(merged) + 1)..Len(final) :
            /\ NameOf(final[n]) \in missing
            /\ final[n] = [Name |-> NameOf(final[n]), Recipe |-> <<>>,
                           Power |-> [Provides |-> 0, Consumes |-> 0],
                           WaterCapacity |-> 0, IsConsumable |-> TRUE]
        /\ \A name \in missing : Cardinality(Positions(final, name)) = 1

\* C4, as stated: every consumable name referenced after the merge and absent
\* from the top level gets one placeholder, exactly once, and nothing else is
\* added.
C4_PlaceholderEveryName ==
    [][pc = "closure" =>
        PlaceholdersAdded(all_item_data, all_item_data',
                          ReferencedNames(all_item_data))]_vars

\* C4, amended: every non-empty consumable name referenced after the merge and
\* absent from the top level gets one placeholder (empty Recipe, zero Power,
\* zero WaterCapacity, IsConsumable true), exactly once, and nothing else is
\* added.
C4_Placeholder ==
    [][pc = "closure" =>
        PlaceholdersAdded(all_item_data, all_item_data',
                          {c \in ReferencedNames(all_item_data) : Truthy(c)})]_vars

\* the closure pass has run on a list where a missing name is referenced more
\* than once and another referenced name is already at the top level
C4_Witness ==
    /\ pc = "save"
    /\ \E name \in ReferencedNames(all_item_data) :
        /\ Cardinality(References(all_item_data, name)) >= 2
        /\ \E n \in 1..Len(minimal_consumables) : minimal_consumables[n].Name = name
    /\ \E name \in ReferencedNames(all_item_data) :
        \A n \in 1..Len(minimal_consumables) : minimal_consumables[n].Name /= name

----------------------------------------------------------------------------
(* C5 *)

\* C5: an offline run makes no network call at any point, and an offline run
\* without a prior snapshot writes the manual overrides and nothing else: an
\* empty array when there are no manual overrides.
C5_OfflineNoNetwork ==
    /\ ~update => EventsOf("GET") = {}
    /\ (pc = "done" /\ ~update /\ prior.kind = "absent") =>
            /\ file.items = manual
            /\ Len(manual) = 0 => file.items = <<>>

\* a completed offline run that found no snapshot
C5_Witness == pc = "done" /\ ~update /\ prior.kind = "absent"

----------------------------------------------------------------------------
(* C6 *)

----------------------------------------------------------------------------
(* C7 *)

\* what the merge and the closure pass make of a record list
FinalOutput(items) ==
    LET merged == merge_manual_items(items)
    IN  merged \o ClosureScan(merged).minimal_consumables

\* C7: an update run never reads the prior snapshot: what it writes is
\* determined by the links and the fetched pages alone, and a record that only
\* the prior snapshot names is not in the output.
C7_UpdateFromScratch ==
    update =>
        /\ EventsOf("read") = {}
        /\ pc = "done" =>
            LET scraped == Scraped(item_links, responses)
            IN  /\ file.items = FinalOutput(scraped)
                /\ \A r \in PriorRecords :
                     NameOf(r) \notin
                        (Names(scraped) \cup Names(manual) \cup ReferencedNames(scraped))
                     => Positions(file.items, NameOf(r)) = {}

\* a completed update run that started with a snapshot holding a record the
\* output does not have
C7_Witness ==
    /\ pc = "done"
    /\ update
    /\ prior.kind = "json"
    /\ \E r \in PriorRecords : Positions(file.items, NameOf(r)) = {}

----------------------------------------------------------------------------
(* C8 *)

\* the file is read at most once, first of all and in offline mode only
ReadOnceAtStart ==
    /\ Cardinality(EventsOf("read")) <= 1
    /\ EventsOf("read") \subseteq {1}
    /\ EventsOf("read") /= {} => ~update

\* the run ends with the merge, the closure pass and the only write, in that
\* order, after every fetch
WrittenOnceAtEnd ==
    /\ Len(trace) >= 3
    /\ SubSeq(trace, Len(trace) - 2, Len(trace)) =
         << Event("merge", ""), Event("closure", ""), Event("write", "items_data.json") >>
    /\ EventsOf("write") = {Len(trace)}
    /\ EventsOf("merge") = {Len(trace) - 2}
    /\ EventsOf("closure") = {Len(trace) - 1}
    /\ \A n \in EventsOf("GET") \cup EventsOf("read") : n < Len(trace) - 2

----------------------------------------------------------------------------
(* C9 *)

\* C9: an offline run whose snapshot cannot be read or parsed goes on with an
\* empty set, through merge, closure pass and save, and writes what the run
\* without a snapshot writes.
C9_CorruptSnapshot ==
    (~update /\ prior.kind \in {"corrupt", "absent"}) =>
        /\ pc /= "fatal"
        /\ pc \notin {"done", "idle"} => ENABLED Next
        /\ pc = "merge" => all_item_data = <<>>
        /\ pc = "done" =>
            /\ file = JsonFile(FinalOutput(<<>>))
            /\ SubSeq(trace, Len(trace) - 2, Len(trace)) =
                 << Event("merge", ""), Event("closure", ""),
                    Event("write", "items_data.json") >>

\* a completed offline run whose snapshot was unreadable
C9_Witness ==
    /\ pc = "done"
    /\ ~update
    /\ prior.kind = "corrupt"
    /\ trace[1] = Event("read", "items_data.json")

----------------------------------------------------------------------------
(* C10 *)

\* the page of the example: rows "Power Output: 12" and "Power Draw: 3"
OutputAndDrawPage ==
    [title |-> <<"Wind", "Trap">>,
     rows |-> << PowerRow(<<"Power", "Output">>, 12), PowerRow(<<"Power", "Draw">>, 3) >>,
     m_prov |-> 12, m_cons |-> 3]

\* C10: parse_power_from_page never returns Provides > 0 together with
\* Consumes > 0; when both values are non-zero before the final correction,
\* Provides is kept and Consumes is 0.
C10_NotBoth ==
    /\ power_pc = "returned" =>
        /\ ~(power_result.Provides > 0 /\ power_result.Consumes > 0)
        /\ (provides > 0 /\ consumes > 0) =>
              power_result = [Provides |-> provides, Consumes |-> 0]
    /\ parse_power_from_page(OutputAndDrawPage) = [Provides |-> 12, Consumes |-> 0]

\* a call that returned after finding both values non-zero
C10_Witness == power_pc = "returned" /\ provides > 0 /\ consumes > 0

----------------------------------------------------------------------------
(* C11 *)

\* the page of the example: title "Wind Generator", only row "Power: 8"
WindGeneratorPage ==
    [title |-> <<"Wind", "Generator">>,
     rows |-> << PowerRow(<<"Power">>, 8) >>,
     m_prov |-> NoMatch, m_cons |-> NoMatch]

\* neither the row loop nor the text fallback gave provides or consumes a
\* non-zero value
BothLeftAtZero ==
    /\ scanned.provides = 0
    /\ scanned.consumes = 0
    /\ match_prov \in {NoMatch, 0}
    /\ match_cons \in {NoMatch, 0} \/ match_prov /= NoMatch

TitleHasGenerator == \E k \in 1..Len(page_title) : Lower(page_title[k]) = "generator"

LargestAmbiguous ==
    CHOOSE v \in Range(ambiguous_vals) : \A w \in Range(ambiguous_vals) : w <= v

\* C11: when the table scan and the text fallback leave both values at zero
\* and some ambiguous "power" row had a non-zero number, the largest ambiguous
\* value is returned as Provides if the title contains "generator" in any
\* case, as Consumes otherwise, the other value being 0.
C11_AmbiguousByTitle ==
    /\ (power_pc = "returned" /\ BothLeftAtZero /\ Len(ambiguous_vals) > 0) =>
          power_result = IF TitleHasGenerator
                         THEN [Provides |-> LargestAmbiguous, Consumes |-> 0]
                         ELSE [Provides |-> 0, Consumes |-> LargestAmbiguous]
    /\ parse_power_from_page(WindGeneratorPage) = [Provides |-> 8, Consumes |-> 0]

\* a call that returned the larger of two ambiguous values as Provides, on a
\* page whose title spells GENERATOR in capitals
C11_Witness ==
    /\ power_pc = "returned"
    /\ BothLeftAtZero
    /\ Len(ambiguous_vals) = 2
    /\ ambiguous_vals[1] < ambiguous_vals[2]
    /\ page_title = <<"GENERATOR">>
    /\ power_result.Provides = ambiguous_vals[2]

----------------------------------------------------------------------------
(* C15 *)

\* C15, as stated: once the table scan found a provide value or a consume
\* value, the text fallback adds nothing: provides and consumes before the
\* final correction are those of the table scan.
C15_FallbackOnlyWhenNone ==
    (power_pc \in {"resolve", "correct", "returned"}
       /\ (scanned.provides > 0 \/ scanned.consumes > 0)) =>
        /\ provides = scanned.provides
        /\ consumes = scanned.consumes

\* C15, amended: the text fallback fills a side only when the table scan left
\* that side at zero: Provides comes from the text when the table scan found
\* no provide value, even if it found a consume value; Consumes comes from the
\* text when the table scan found no consume value and the text has no provide
\* phrase; a non-zero value of the table scan is never replaced before the
\* final correction.
C15_FallbackPerSide ==
    /\ power_pc \in {"resolve", "correct", "returned"} =>
        /\ scanned.provides > 0 => provides = scanned.provides
        /\ scanned.consumes > 0 => consumes = scanned.consumes
    /\ power_pc = "resolve" =>
        /\ provides /= scanned.provides =>
              scanned.provides = 0 /\ provides = match_prov
        /\ consumes /= scanned.consumes =>
              scanned.consumes = 0 /\ consumes = match_cons /\ match_prov = NoMatch

\* a call where the table scan found a consume value only and the text
\* fallback supplied provides
C15_Witness ==
    /\ power_pc = "returned"
    /\ scanned.provides = 0
    /\ scanned.consumes > 0
    /\ match_prov > 0
    /\ provides = match_prov
    /\ power_result = [Provides |-> match_prov, Consumes |-> 0]

----------------------------------------------------------------------------
(* C12 *)

\* C12: for every count N >= 1 and every component name, the four shapes
\* "<N>x Name", "Name x<N>", "Name (<N>)" and "<N> Name" all give the pair
\* (N, Name).
C12_SamePair ==
    q_pc = "returned" => q_result = [qty |-> q_count, name |-> q_name]

----------------------------------------------------------------------------
(* C13 *)

\* C13: every entry of the Recipe that scrape_recipe_from_page returns has
\* Count >= 1, on every extraction path.
C13_CountAtLeastOne ==
    r_pc = "returned" => \A k \in 1..Len(recipe) : recipe[k].Count >= 1

----------------------------------------------------------------------------
(* C14 *)

CandidatesNamed(name) == {k \in 1..Len(c_results) : c_results[k].Name = name}

\* C14: the returned list has at most one entry per name, the Hours of a name
\* is the largest of its candidates, every Hours is > 0, and a missing or
\* zero duration is replaced by the default of one hour.
C14_DedupLargestPositive ==
    /\ c_pc = "returned" =>
           /\ \A j, k \in 1..Len(consumables) :
                  consumables[j].Name = consumables[k].Name => j = k
           /\ \A k \in 1..Len(c_results) :
                  \E j \in 1..Len(consumables) : consumables[j].Name = c_results[k].Name
           /\ \A j \in 1..Len(consumables) :
                  /\ CandidatesNamed(consumables[j].Name) /= {}
                  /\ \E k \in CandidatesNamed(consumables[j].Name) :
                         consumables[j].Hours = c_results[k].Hours
                  /\ \A k \in CandidatesNamed(consumables[j].Name) :
                         c_results[k].Hours <= consumables[j].Hours
                  /\ consumables[j].Hours > 0
    /\ \A k \in 1..Len(c_results) : c_results[k].Hours > 0
    /\ \A k \in 1..Len(c_results) :
           c_results[k].Hours =
               (IF _parse_hours(c_texts[k]) = NoMatch \/ _parse_hours(c_texts[k]) = 0
                THEN DefaultHours ELSE _parse_hours(c_texts[k]))

\* a name whose first candidate has a zero duration, replaced by the default,
\* and whose second candidate has two hours: the two hours are returned
C14_Witness ==
    /\ c_pc = "returned"
    /\ Len(page_rows) = 2
    /\ _parse_hours(c_texts[1]) = 0
    /\ c_results = << [Name |-> FuelCell, Hours |-> DefaultHours],
                      [Name |-> FuelCell, Hours |-> 2 * MinutesPerHour] >>
    /\ consumables = << [Name |-> FuelCell, Hours |-> 2 * MinutesPerHour] >>

----------------------------------------------------------------------------
(* C16 *)

BuildCostStrategies == {"list", "table"}

ListsOf(sec) == {k \in 1..Len(sec) : IsList(sec[k])}

TablesOf(sec) == {k \in 1..Len(sec) : sec[k].tag = "table"}

\* C16: the strategies have the fixed priority list, table, legacy table:
\* the result comes from the Build Cost table only when the section
\* has no list or its lists yield nothing, wherever the table stands; a table
\* of the section is tried when the lists yield nothing; and the legacy table
\* is tried exactly when the Build Cost section yielded nothing.
C16_FixedPriority ==
    r_pc = "returned" =>
        /\ "table" \in yielded =>
               \A k \in ListsOf(section) : ParseList(section[k].items) = <<>>
        /\ (/\ TablesOf(section) /= {}
            /\ \A k \in ListsOf(section) : ParseList(section[k].items) = <<>>) =>
               "table" \in Range(tried)
        /\ "legacy" \in Range(tried) <=>
               (yielded \cap BuildCostStrategies = {} /\ recipe_heading_span = "table")

----------------------------------------------------------------------------
(* C17 *)

\* C17: an offline run that starts from the snapshot a completed run wrote
\* writes the record list it loaded, same records in the same order, so that
\* consecutive offline runs leave the snapshot as the first run wrote it.
C17_OfflineIdempotent ==
    /\ (runs >= 1 /\ pc = "done") =>
           /\ file = prior
           /\ file.items = merge_manual_items(prior.items)
           /\ minimal_consumables = <<>>
    /\ (runs >= 1 /\ pc \in {"start", "merge", "closure", "save"}) => file = prior
    /\ runs >= 1 => ~update /\ pc /= "fatal" /\ prior.kind = "json"

\* the second offline run after a run that added the manual item in the
\* middle of the list and two placeholders at its end
C17_Witness ==
    /\ runs = 2
    /\ pc = "done"
    /\ Len(file.items) = 4
    /\ file.items[2] = manual[1]
    /\ file.items[3] = Placeholder("Fuel Cell")
    /\ file.items[4] = Placeholder("Lubricant")
    /\ EventsOf("write") /= {}

----------------------------------------------------------------------------
(* C18 *)

ManualNames == {manual[k].Name : k \in 1..Len(manual)}

\* the positions of the records whose name is not the name of a manual item
OtherPositions(items) == {n \in 1..Len(items) : NameOf(items[n]) \notin ManualNames}

\* the records whose name is not the name of a manual item, in order
Others(items) ==
    LET pos == OtherPositions(items)
        Nth(k) == CHOOSE n \in pos : Cardinality({o \in pos : o < n}) = k - 1
    IN  [k \in 1..Cardinality(pos) |-> items[Nth(k)]]

\* the positions of the output at which a record of the snapshot stands
KeptPositions == {n \in 1..Len(file.items) : file.items[n] \in Range(Others(prior.items))}

\* the records of the output that are records of the snapshot, in order
Kept ==
    LET Nth(k) == CHOOSE n \in KeptPositions :
                      Cardinality({o \in KeptPositions : o < n}) = k - 1
    IN  [k \in 1..Cardinality(KeptPositions) |-> file.items[Nth(k)]]

OfflineOverDistinctNames ==
    /\ pc = "done"
    /\ ~update
    /\ prior.kind = "json"
    /\ NoDuplicateNames(prior.items)

\* C18: an offline run over a snapshot whose records have distinct names
\* keeps every record whose name is not the name of a manual item, with all
\* its fields and in the same relative order, and adds nothing but manual
\* items and consumable placeholders.
C18_OthersPreserved ==
    OfflineOverDistinctNames =>
        /\ Kept = Others(prior.items)
        /\ \A n \in 1..Len(file.items) :
               \/ n \in KeptPositions
               \/ file.items[n] \in Range(manual)
               \/ /\ file.items[n] = Placeholder(NameOf(file.items[n]))
                  /\ file.items[n] \in Range(minimal_consumables)

\* a snapshot of two records, neither of them the manual item: both are
\* kept in their order, the manual item and a placeholder are added
C18_Witness ==
    /\ OfflineOverDistinctNames
    /\ prior.items = <<WindTrap, Placeholder("Lubricant")>>
    /\ file.items = <<WindTrap, Placeholder("Lubricant"), manual[1],
                      Placeholder("Fuel Cell")>>

====
